---- MODULE Spec2Model ----
(***************************************************************************)
(* Progress tracking of the SVT-AV1 encoder front end: the Encoder of      *)
(* encoder/ffmpeg.go (probes, stdout/stderr pumps, process-exit task,      *)
(* percentage and ETA estimation) and the polling TUI that reads it.       *)
(*                                                                         *)
(* Conventions of the model                                                *)
(*  - Go strings are TLA+ strings; parsers work on them character by       *)
(*    character with Len and SubSeq.                                       *)
(*  - A float64 is an exact rational <<n, d>> with d > 0, kept in lowest   *)
(*    terms; int64(x) is truncation toward zero.  Rounding error of the    *)
(*    binary floating point format is not modelled.                        *)
(*  - A time.Duration is held in microseconds (the code counts nano-       *)
(*    seconds): the unavailable-ETA sentinel -1 stays -1.                  *)
(*  - The wall clock counts whole seconds; the zero time.Time is 0 and     *)
(*    the clock starts at 1.  The clock is read where the code reads it    *)
(*    (Start, calculateETALocked); the readings are sampled.               *)
(*  - Encoder.mu is explicit for applyProgressBatch, whose field updates   *)
(*    and whose percentage and ETA computation are two steps; the other    *)
(*    critical sections are single steps that need the mutex free.         *)
(***************************************************************************)
EXTENDS Integers, Sequences, FiniteSets, TLC

VARIABLES
    Progress,        \* Encoder.Progress
    Done,            \* Encoder.Done
    Error,           \* Encoder.Error ("nil" or the cause)
    LogLines,        \* len(Encoder.LogLines)
    mu,              \* holder of Encoder.mu, "free" when unlocked
    cmd,             \* the ffmpeg subprocess: "none", "running", "exited", "failed"
    pcMain,          \* position of startEncoding
    pcOut,           \* position of the parseProgress goroutine
    marker,          \* the last batch marker parseProgress saw ("none" before any)
    batch,           \* parseProgress's local progressUpdate
    pcErr,           \* position of the captureStderr goroutine
    pcWait,          \* position of the cmd.Wait goroutine
    clock,           \* wall clock at its last reading, seconds
    newETA,          \* calculateETALocked's local newETA of the last call
    etaMethod,       \* which method of calculateETALocked set newETA (0: none)
    pctBasis,        \* what calculatePercentageLocked last computed Percentage from
    committed,       \* Encoder.Progress at the last e.mu.Unlock()
    State,           \* tui.Model.State
    CurrentProgress, \* tui.Model.CurrentProgress
    tickPending,     \* a TickMsg is scheduled
    nBatches,        \* batches applied so far (bounded by MaxBatches)
    nOutLines,       \* stdout lines read so far (bounded by MaxOutLines)
    nErrLines,       \* stderr lines read so far (bounded by MaxErrLines)
    call             \* the last call of a function or view on inputs of its own

vars == <<Progress, Done, Error, LogLines, mu, cmd, pcMain, pcOut, marker, batch, pcErr,
          pcWait, clock, newETA, etaMethod, pctBasis, committed, State, CurrentProgress,
          tickPending, nBatches, nOutLines, nErrLines, call>>

----------------------------------------------------------------------------
(* Bounds of the model *)

MaxBatches == 1      \* batch markers read in one run
MaxOutLines == 2     \* key=value lines read from stdout in one run
MaxErrLines == 1     \* lines read from stderr in one run
MaxPipelineBatches == 2 \* batch markers read in one run of the pipeline alone
MaxPipelineLines == 2   \* key=value lines read in one run of the pipeline alone
MaxScenarioBatches == 1 \* batch markers read in the run of the documented batch
MaxScenarioLines == 6   \* key=value lines read in the run of the documented batch
MaxETABatches == 2      \* batch markers read in one run of the ETA tiers
MaxETALines == 3        \* key=value lines read in one run of the ETA tiers
MaxProbeErrLines == 2   \* lines read from stderr in one run of the probes
MaxLogErrLines == 98    \* lines read from stderr in one run of the log
MaxParseBatches == 2    \* batch markers read in one run of the line parser
MaxParseLines == 3      \* key=value lines read in one run of the line parser
MaxLiveBatches == 1     \* batch markers read in one run to termination
MaxLiveLines == 2       \* key=value lines read in one run to termination
MaxLiveErrLines == 1    \* lines read from stderr in one run to termination
MaxDoneBatches == 1     \* batch markers read in one run to the completion view
MaxDoneLines == 1       \* key=value lines read in one run to the completion view

----------------------------------------------------------------------------
(* Rationals standing for float64 values *)

Abs(i) == IF i < 0 THEN -i ELSE i

RECURSIVE GCD(_, _)
GCD(a, b) == IF b = 0 THEN a ELSE GCD(b, a % b)

Rat(n, d) == IF n = 0 THEN <<0, 1>>
             ELSE LET g == GCD(Abs(n), d) IN <<n \div g, d \div g>>

IntR(i) == <<i, 1>>
RLess(a, b) == a[1] * b[2] < b[1] * a[2]
RLeq(a, b) == a[1] * b[2] <= b[1] * a[2]
RSub(a, b) == Rat(a[1] * b[2] - b[1] * a[2], a[2] * b[2])
RMul(a, b) == LET x == Rat(a[1], b[2])
                  y == Rat(b[1], a[2])
              IN  Rat(x[1] * y[1], x[2] * y[2])
RDiv(a, b) == IF b[1] > 0 THEN RMul(a, <<b[2], b[1]>>) ELSE RMul(a, <<-b[2], -b[1]>>)
RAbs(a) == <<Abs(a[1]), a[2]>>

\* floor(a * n / d) for a, n >= 0 and d > 0, without forming a * n
MulDiv(a, n, d) == (a \div d) * n + ((a % d) * n) \div d

\* int64(x): truncation toward zero
Trunc(r) == IF r[1] >= 0 THEN r[1] \div r[2] ELSE -((-r[1]) \div r[2])

\* int64(float64(i) * r) for i >= 0, r >= 0
ScaleTrunc(i, r) == LET x == Rat(i, r[2]) IN MulDiv(x[1], r[1], x[2])

----------------------------------------------------------------------------
(* Go string helpers *)

Ch(s, i) == SubSeq(s, i, i)
Digits == {"0", "1", "2", "3", "4", "5", "6", "7", "8", "9"}
Space == {" ", "\t", "\n", "\r"}

DigitVal(c) == CASE c = "0" -> 0 [] c = "1" -> 1 [] c = "2" -> 2 [] c = "3" -> 3
                 [] c = "4" -> 4 [] c = "5" -> 5 [] c = "6" -> 6 [] c = "7" -> 7
                 [] c = "8" -> 8 [] c = "9" -> 9

AllDigits(s) == Len(s) > 0 /\ \A i \in 1..Len(s) : Ch(s, i) \in Digits

RECURSIVE DigitsVal(_)
DigitsVal(s) == IF Len(s) = 0 THEN 0
                ELSE 10 * DigitsVal(SubSeq(s, 1, Len(s) - 1)) + DigitVal(Ch(s, Len(s)))

RECURSIVE Pow10(_)
Pow10(k) == IF k = 0 THEN 1 ELSE 10 * Pow10(k - 1)

HasPrefix(s, p) == Len(s) >= Len(p) /\ SubSeq(s, 1, Len(p)) = p
HasSuffix(s, p) == Len(s) >= Len(p) /\ SubSeq(s, Len(s) - Len(p) + 1, Len(s)) = p
HasAt(s, i, p) == i >= 1 /\ i + Len(p) - 1 <= Len(s) /\ SubSeq(s, i, i + Len(p) - 1) = p
TrimSuffix(s, p) == IF HasSuffix(s, p) THEN SubSeq(s, 1, Len(s) - Len(p)) ELSE s

\* strings.Index for a one-character separator: 0 when absent
IndexOf(s, c) == IF \E i \in 1..Len(s) : Ch(s, i) = c
                 THEN CHOOSE i \in 1..Len(s) :
                          Ch(s, i) = c /\ \A j \in 1..(i - 1) : Ch(s, j) # c
                 ELSE 0

RECURSIVE TrimLeft(_)
TrimLeft(s) == IF Len(s) > 0 /\ Ch(s, 1) \in Space THEN TrimLeft(Tail(s)) ELSE s
RECURSIVE TrimRight(_)
TrimRight(s) == IF Len(s) > 0 /\ Ch(s, Len(s)) \in Space
                THEN TrimRight(SubSeq(s, 1, Len(s) - 1)) ELSE s
TrimSpace(s) == TrimRight(TrimLeft(s))

\* strings.Split(s, sep) for a one-character separator
RECURSIVE Split(_, _)
Split(s, c) == LET i == IndexOf(s, c)
               IN  IF i = 0 THEN <<s>>
                   ELSE <<SubSeq(s, 1, i - 1)>> \o Split(SubSeq(s, i + 1, Len(s)), c)

\* strings.SplitN(s, sep, 2)
SplitN2(s, c) == LET i == IndexOf(s, c)
                 IN  IF i = 0 THEN <<s>>
                     ELSE <<SubSeq(s, 1, i - 1), SubSeq(s, i + 1, Len(s))>>

\* strconv.ParseInt(s, 10, 64): an optional sign and decimal digits
ParseInt(s) ==
    LET neg  == Len(s) > 0 /\ Ch(s, 1) = "-"
        sign == Len(s) > 0 /\ Ch(s, 1) \in {"-", "+"}
        body == IF sign THEN Tail(s) ELSE s
    IN  IF AllDigits(body)
        THEN [ok |-> TRUE, val |-> IF neg THEN -DigitsVal(body) ELSE DigitsVal(body)]
        ELSE [ok |-> FALSE, val |-> 0]

\* strconv.ParseFloat(s, 64) on plain decimals: [sign] digits [. digits]
ParseFloat(s) ==
    LET neg  == Len(s) > 0 /\ Ch(s, 1) = "-"
        sign == Len(s) > 0 /\ Ch(s, 1) \in {"-", "+"}
        body == IF sign THEN Tail(s) ELSE s
        dot  == IndexOf(body, ".")
        ip   == IF dot = 0 THEN body ELSE SubSeq(body, 1, dot - 1)
        fp   == IF dot = 0 THEN "" ELSE SubSeq(body, dot + 1, Len(body))
        wf   == /\ Len(ip) + Len(fp) > 0
                /\ \A i \in 1..Len(ip) : Ch(ip, i) \in Digits
                /\ \A i \in 1..Len(fp) : Ch(fp, i) \in Digits
        mag  == DigitsVal(ip \o fp)
    IN  IF wf
        THEN [ok |-> TRUE, val |-> Rat(IF neg THEN -mag ELSE mag, Pow10(Len(fp)))]
        ELSE [ok |-> FALSE, val |-> <<0, 1>>]

----------------------------------------------------------------------------
(* Line parsers of encoder/ffmpeg.go *)

\* parseFrameRate: "24000/1001" or "23.976"; 0 when it cannot be parsed
parseFrameRate(fpsStr0) ==
    LET fpsStr == TrimSpace(fpsStr0)
        parts  == Split(fpsStr, "/")
        num    == ParseFloat(TrimSpace(parts[1]))
        den    == ParseFloat(TrimSpace(parts[2]))
        plain  == ParseFloat(fpsStr)
    IN  IF fpsStr = "" THEN <<0, 1>>
        ELSE IF IndexOf(fpsStr, "/") # 0
             THEN IF Len(parts) = 2 /\ num.ok /\ den.ok /\ den.val[1] > 0
                  THEN RDiv(num.val, den.val)
                  ELSE <<0, 1>>
             ELSE plain.val

\* parseOutTime: "HH:MM:SS.microseconds" to microseconds, -1 on failure
parseOutTime(timeStr0) ==
    LET timeStr  == TrimSpace(timeStr0)
        parts    == Split(timeStr, ":")
        hours    == ParseInt(parts[1])
        mins     == ParseInt(parts[2])
        secParts == Split(parts[3], ".")
        secs     == ParseInt(secParts[1])
        usRaw    == secParts[2]
        usStr    == IF Len(usRaw) < 6
                    THEN usRaw \o SubSeq("000000", 1, 6 - Len(usRaw))
                    ELSE SubSeq(usRaw, 1, 6)
        parsedUs == ParseInt(usStr)
        microsecs == IF Len(secParts) > 1 THEN parsedUs.val ELSE 0
    IN  IF timeStr = "" \/ timeStr = "N/A" THEN -1
        ELSE IF Len(parts) # 3 THEN -1
        ELSE IF ~hours.ok \/ ~mins.ok THEN -1
        ELSE IF ~secs.ok THEN -1
        ELSE hours.val * 3600 * 1000000 + mins.val * 60 * 1000000
             + secs.val * 1000000 + microsecs

\* a clamp that forgets the upper limit
clampPercentageLowerOnly(pct) == IF RLess(pct, IntR(0)) THEN IntR(0) ELSE pct

\* clampPercentage
clampPercentage(pct) ==
    IF RLess(pct, IntR(0)) THEN IntR(0)
    ELSE IF RLess(IntR(100), pct) THEN IntR(100)
    ELSE pct

----------------------------------------------------------------------------
(* Program constants *)

DefaultSourceFPS == 24
MaxProbeDurationSec == 86400
MaxSourceFPS == 1000
MaxEstimatedFrames == 100000000
maxLogs == 100
WarmupSeconds == 5
ExtrapolationSeconds == 10
ExtrapolationMinPercent == 2
DisagreementPercent == 10
MicrosPerSecond == 1000000

----------------------------------------------------------------------------
(* What the environment can supply *)

\* a probe's outcome: cmd.Output() returns the text and an error or nil
Probe(err, out) == [err |-> err, out |-> out]

FrameRateProbes == { Probe(FALSE, "10/1,10/1\n") }
FrameCountProbes == { Probe(TRUE, ""), Probe(FALSE, "100\n") }
DurationProbes == { Probe(TRUE, ""), Probe(FALSE, "10.000000\n") }

\* more outcomes, for the runs of the pipeline alone
\* a source of 50 s at 20 frames per second whose container has no frame count
ScenarioFrameRateProbes == { Probe(FALSE, "20/1,20/1\n") }
ScenarioFrameCountProbes == { Probe(TRUE, ""), Probe(FALSE, "N/A\n") }
ScenarioDurationProbes == { Probe(FALSE, "50.000000\n") }

\* the outcomes in the runs of the probes: a failed frame-rate probe, a real rate
\* of 0/0 beside an average rate, an NTSC rate and the 90 kHz rate ffprobe reports
\* for some streams; a failed, an empty ("N/A") and a good frame-count probe; a
\* failed and an empty duration probe, a duration whose product with the rate has
\* a fraction above one half, and one whose product is below 1
ProbeFrameRateProbes ==
    { Probe(TRUE, ""), Probe(FALSE, "0/0,10/1\n"), Probe(FALSE, "30000/1001,30000/1001\n"),
      Probe(FALSE, "90000/1,90000/1\n") }
ProbeFrameCountProbes == { Probe(TRUE, ""), Probe(FALSE, "N/A\n"), Probe(FALSE, "100\n") }
ProbeDurationProbes ==
    { Probe(TRUE, ""), Probe(FALSE, "N/A\n"), Probe(FALSE, "10.060000\n"),
      Probe(FALSE, "0.010000\n") }

----------------------------------------------------------------------------
(* The Encoder *)

ZeroProgress ==
    [ Frame |-> 0, FPS |-> <<0, 1>>, Bitrate |-> "", TotalSize |-> 0, OutTimeUs |-> 0,
      Speed |-> "", Percentage |-> <<0, 1>>, TotalFrames |-> 0, TotalDuration |-> 0,
      ETA |-> 0, SpeedRaw |-> "", BitrateRaw |-> "", ETAAvailable |-> FALSE,
      StartTime |-> 0, LastValidFPS |-> <<0, 1>>, LastValidSpeed |-> <<0, 1>>,
      FrameEstimated |-> FALSE, SourceFPS |-> <<0, 1>> ]

ZeroBatch ==
    [ frame |-> 0, frameSet |-> FALSE, fps |-> <<0, 1>>, fpsSet |-> FALSE,
      bitrate |-> "", bitrateRaw |-> "", bitrateSet |-> FALSE,
      size |-> 0, sizeSet |-> FALSE, outTimeUs |-> 0, outTimeSet |-> FALSE,
      speed |-> <<0, 1>>, speedRaw |-> "", speedSet |-> FALSE ]

\* append n lines to the log, keeping the last maxLogs (addLog, captureStderr)
appendBounded(len, n) == IF len + n > maxLogs THEN maxLogs ELSE len + n

\* GetTotalFrames, the source frame rate part
probedSourceFPS(fpsProbe) ==
    LET fpsParts == Split(TrimSpace(fpsProbe.out), ",")
        first    == parseFrameRate(fpsParts[1])
        fps      == IF first[1] <= 0 /\ Len(fpsParts) >= 2
                    THEN parseFrameRate(fpsParts[2]) ELSE first
    IN  IF fps[1] > 0 THEN fps ELSE IntR(DefaultSourceFPS)

\* estimateFramesFromDuration
estimateFramesFromDuration(p, durProbe) ==
    LET duration == ParseFloat(TrimSpace(durProbe.out))
        totalDur == ScaleTrunc(MicrosPerSecond, duration.val)
        estimatedFrames == Trunc(RMul(duration.val, p.SourceFPS))
    IN  IF durProbe.err THEN p
        ELSE IF ~duration.ok \/ duration.val[1] <= 0 THEN p
        ELSE IF RLess(IntR(MaxProbeDurationSec), duration.val)
             THEN [p EXCEPT !.TotalDuration = totalDur]
        ELSE IF /\ p.SourceFPS[1] > 0 /\ RLess(p.SourceFPS, IntR(MaxSourceFPS))
                /\ estimatedFrames > 0 /\ estimatedFrames < MaxEstimatedFrames
             THEN [p EXCEPT !.TotalDuration = totalDur,
                            !.TotalFrames = estimatedFrames,
                            !.FrameEstimated = TRUE]
             ELSE [p EXCEPT !.TotalDuration = totalDur]

\* GetTotalFrames
probedProgress(p0, fpsProbe, nbProbe, durProbe) ==
    LET p      == [p0 EXCEPT !.SourceFPS = probedSourceFPS(fpsProbe)]
        frames == ParseInt(TrimSpace(nbProbe.out)).val
    IN  IF ~nbProbe.err /\ frames > 0
        THEN [p EXCEPT !.TotalFrames = frames, !.FrameEstimated = FALSE]
        ELSE estimateFramesFromDuration(p, durProbe)

\* estimateFramesFromDuration: the error it returns ("nil" on every path)
estimateFramesError(durProbe) ==
    LET duration == ParseFloat(TrimSpace(durProbe.out))
    IN  IF durProbe.err THEN "nil"
        ELSE IF ~duration.ok \/ duration.val[1] <= 0 THEN "nil"
        ELSE "nil"

\* GetTotalFrames: the error it returns
getTotalFramesError(nbProbe, durProbe) ==
    IF ~nbProbe.err /\ ParseInt(TrimSpace(nbProbe.out)).val > 0
    THEN "nil"
    ELSE estimateFramesError(durProbe)

\* no percentage computed yet, or the percentage set by finalizeProgressLocked
NoBasis == [cand |-> "none", total |-> 0, value |-> 0]
FinalBasis == [cand |-> "final", total |-> 0, value |-> 0]

\* no function has been called on inputs of its own
NoCall == [fn |-> "none", arg |-> "", res |-> ""]

Init ==
    /\ Progress = ZeroProgress
    /\ Done = FALSE
    /\ Error = "nil"
    /\ LogLines = 0
    /\ mu = "free"
    /\ cmd = "none"
    /\ pcMain = "new"
    /\ pcOut = "idle"
    /\ marker = "none"
    /\ batch = ZeroBatch
    /\ pcErr = "idle"
    /\ pcWait = "idle"
    /\ clock = 1
    /\ newETA = 0
    /\ etaMethod = 0
    /\ pctBasis = NoBasis
    /\ committed = ZeroProgress
    /\ State = "StateIdle"
    /\ CurrentProgress = ZeroProgress
    /\ tickPending = FALSE
    /\ nBatches = 0
    /\ nOutLines = 0
    /\ nErrLines = 0
    /\ call = NoCall

\* startEncoding up to and including enc.GetTotalFrames()
GetTotalFramesOf(fpsProbes, nbProbes, durProbes) ==
    /\ pcMain = "new"
    /\ \E fpsProbe \in fpsProbes, nbProbe \in nbProbes, durProbe \in durProbes :
          /\ Progress' = probedProgress(Progress, fpsProbe, nbProbe, durProbe)
          /\ pcMain' = IF getTotalFramesError(nbProbe, durProbe) = "nil"
                       THEN "probed" ELSE "failed"
    /\ committed' = Progress'
    /\ UNCHANGED <<Done, Error, LogLines, mu, cmd, pcOut, marker, batch, pcErr, pcWait,
                   clock, newETA, etaMethod, pctBasis, State, CurrentProgress, tickPending,
                   nBatches, nOutLines, nErrLines, call>>

GetTotalFrames == GetTotalFramesOf(FrameRateProbes, FrameCountProbes, DurationProbes)
ProbeGetTotalFrames ==
    GetTotalFramesOf(ProbeFrameRateProbes, ProbeFrameCountProbes, ProbeDurationProbes)
ScenarioGetTotalFrames ==
    GetTotalFramesOf(ScenarioFrameRateProbes, ScenarioFrameCountProbes, ScenarioDurationProbes)

\* Encoder.Start: three addLog calls, the start time, the subprocess and the goroutines
Start ==
    /\ pcMain = "probed"
    /\ LogLines' = appendBounded(appendBounded(appendBounded(LogLines, 1), 1), 1)
    /\ Progress' = [Progress EXCEPT !.StartTime = clock]
    /\ committed' = Progress'
    /\ \/ /\ cmd' = "running"
          /\ pcMain' = "started"
          /\ pcOut' = "scan"
          /\ pcErr' = "scan"
          /\ pcWait' = "wait"
       \/ /\ pcMain' = "failed"
          /\ UNCHANGED <<cmd, pcOut, pcErr, pcWait>>
    /\ UNCHANGED <<Done, Error, mu, marker, batch, clock, newETA, etaMethod, pctBasis, State,
                   CurrentProgress, tickPending, nBatches, nOutLines, nErrLines, call>>

----------------------------------------------------------------------------
(* parseProgress: the stdout pump *)

\* key=value lines ffmpeg -progress can write between two markers
StdoutLines ==
    { "frame=120", "out_time=00:00:12.000000" }

\* more lines, for the runs of the pipeline alone
PipelineStdoutLines ==
    { "frame=120", "frame=20", "out_time_ms=1000", "out_time_us=2000000", "speed=2x",
      "total_size=4096" }

\* the lines of the batch the design documents walk through
ScenarioStdoutLines ==
    { "frame=100", "fps=24", "bitrate=1234kbits/s", "total_size=5000000",
      "out_time_us=4166667", "speed=1.2x" }

\* the lines of the runs that exercise the ETA tiers and the smoothing: a frame
\* count at and above the 2 % mark of 100 frames, an encoding rate, speeds that are
\* valid, slow and not available, and media times early in and 1 us short of 10 s
ETAStdoutLines ==
    { "frame=20", "frame=2", "fps=25", "speed=2x", "speed=0.5x", "speed=N/A",
      "out_time_us=2000000", "out_time_us=9999999" }

\* the lines of the runs of the line parser: for frame, fps and total_size a
\* good value, a negative one and one that is not a number; a line with an unknown
\* key and one without "="; speeds that are positive, zero, not a number and N/A
ParseStdoutLines ==
    { "frame=20", "frame=-5", "frame=abc", "fps=25", "fps=0", "fps=-1.5", "fps=x",
      "total_size=4096", "total_size=-1", "total_size=1k", "foo=bar", "novalue",
      "speed=2x", "speed=0x", "speed=fastx", "speed=N/A" }

Markers == { "progress=continue", "progress=end" }

\* the wall-clock readings of time.Since(StartTime) that are sampled, seconds:
\* inside the warm-up period and past the extrapolation limit
ElapsedSamples == { 4, 11 }

\* more readings, for the runs of the pipeline alone: both sides of the warm-up
\* limit and of the extrapolation limit
PipelineElapsedSamples == { 4, 5, 10, 11 }

\* the readings sampled in the run of the documented batch: up to the
\* extrapolation limit
ScenarioElapsedSamples == { 4, 5, 10 }

\* the lines and the reading sampled in the runs to the completion view
DoneStdoutLines == { "total_size=4096", "frame=20" }
DoneElapsedSamples == { 4 }

\* the lines and the reading sampled in the runs to termination
LiveStdoutLines == { "frame=20", "out_time_us=2000000" }
LiveElapsedSamples == { 4 }

\* the readings sampled in the runs of the line parser
ParseElapsedSamples == { 4, 10 }

\* the readings sampled in the runs of the ETA tiers: inside the warm-up period, at
\* the extrapolation limit and twice past it
ETAElapsedSamples == { 4, 10, 11, 12 }

\* a switch that takes every number, negative ones included
parseLineUnvalidated(b, line) ==
    LET parts == SplitN2(line, "=")
        key   == TrimSpace(parts[1])
        value == TrimSpace(parts[2])
        int   == ParseInt(value)
        flt   == ParseFloat(value)
        ot    == parseOutTime(value)
        spd   == ParseFloat(TrimSuffix(value, "x"))
    IN  IF Len(parts) # 2 THEN b
        ELSE CASE key = "frame" ->
                    IF int.ok
                    THEN [b EXCEPT !.frame = int.val, !.frameSet = TRUE] ELSE b
               [] key = "fps" ->
                    IF flt.ok
                    THEN [b EXCEPT !.fps = flt.val, !.fpsSet = TRUE] ELSE b
               [] key = "bitrate" ->
                    [b EXCEPT !.bitrateRaw = value,
                              !.bitrate = IF value # "N/A" /\ value # "" THEN value ELSE "N/A",
                              !.bitrateSet = TRUE]
               [] key = "total_size" ->
                    IF int.ok
                    THEN [b EXCEPT !.size = int.val, !.sizeSet = TRUE] ELSE b
               [] key = "out_time_us" ->
                    IF int.ok /\ int.val >= 0
                    THEN [b EXCEPT !.outTimeUs = int.val, !.outTimeSet = TRUE] ELSE b
               [] key = "out_time_ms" ->
                    IF int.ok /\ int.val >= 0
                    THEN [b EXCEPT !.outTimeUs = int.val * 1000, !.outTimeSet = TRUE] ELSE b
               [] key = "out_time" ->
                    IF ot >= 0
                    THEN [b EXCEPT !.outTimeUs = ot, !.outTimeSet = TRUE] ELSE b
               [] key = "speed" ->
                    IF value = "N/A"
                    THEN [b EXCEPT !.speedRaw = value, !.speedSet = TRUE]
                    ELSE IF spd.ok /\ spd.val[1] >= 0
                         THEN [b EXCEPT !.speedRaw = value, !.speed = spd.val,
                                        !.speedSet = TRUE]
                         ELSE [b EXCEPT !.speedRaw = value]
               [] OTHER -> b

\* the switch of parseProgress on one key=value line
parseLine(b, line) ==
    LET parts == SplitN2(line, "=")
        key   == TrimSpace(parts[1])
        value == TrimSpace(parts[2])
        int   == ParseInt(value)
        flt   == ParseFloat(value)
        ot    == parseOutTime(value)
        spd   == ParseFloat(TrimSuffix(value, "x"))
    IN  IF Len(parts) # 2 THEN b
        ELSE CASE key = "frame" ->
                    IF int.ok /\ int.val >= 0
                    THEN [b EXCEPT !.frame = int.val, !.frameSet = TRUE] ELSE b
               [] key = "fps" ->
                    IF flt.ok /\ flt.val[1] >= 0
                    THEN [b EXCEPT !.fps = flt.val, !.fpsSet = TRUE] ELSE b
               [] key = "bitrate" ->
                    [b EXCEPT !.bitrateRaw = value,
                              !.bitrate = IF value # "N/A" /\ value # "" THEN value ELSE "N/A",
                              !.bitrateSet = TRUE]
               [] key = "total_size" ->
                    IF int.ok /\ int.val >= 0
                    THEN [b EXCEPT !.size = int.val, !.sizeSet = TRUE] ELSE b
               [] key = "out_time_us" ->
                    IF int.ok /\ int.val >= 0
                    THEN [b EXCEPT !.outTimeUs = int.val, !.outTimeSet = TRUE] ELSE b
               [] key = "out_time_ms" ->
                    IF int.ok /\ int.val >= 0
                    THEN [b EXCEPT !.outTimeUs = int.val * 1000, !.outTimeSet = TRUE] ELSE b
               [] key = "out_time" ->
                    IF ot >= 0
                    THEN [b EXCEPT !.outTimeUs = ot, !.outTimeSet = TRUE] ELSE b
               [] key = "speed" ->
                    IF value = "N/A"
                    THEN [b EXCEPT !.speedRaw = value, !.speedSet = TRUE]
                    ELSE IF spd.ok /\ spd.val[1] >= 0
                         THEN [b EXCEPT !.speedRaw = value, !.speed = spd.val,
                                        !.speedSet = TRUE]
                         ELSE [b EXCEPT !.speedRaw = value]
               [] OTHER -> b

\* a frame block that revises the total also when the total is unknown (0)
applyFrameUnguarded(p, b) ==
    IF b.frameSet
    THEN IF b.frame > p.TotalFrames
         THEN [p EXCEPT !.Frame = b.frame, !.TotalFrames = b.frame, !.FrameEstimated = TRUE]
         ELSE [p EXCEPT !.Frame = b.frame]
    ELSE p

\* a frame block that revises the total and leaves the FrameEstimated flag
applyFrameKeepingFlag(p, b) ==
    IF b.frameSet
    THEN IF b.frame > p.TotalFrames /\ p.TotalFrames > 0
         THEN [p EXCEPT !.Frame = b.frame, !.TotalFrames = b.frame]
         ELSE [p EXCEPT !.Frame = b.frame]
    ELSE p

\* applyProgressBatch, the frame block: the total is revised when the frame passes it
applyFrame(p, b) ==
    IF b.frameSet
    THEN IF b.frame > p.TotalFrames /\ p.TotalFrames > 0
         THEN [p EXCEPT !.Frame = b.frame, !.TotalFrames = b.frame, !.FrameEstimated = TRUE]
         ELSE [p EXCEPT !.Frame = b.frame]
    ELSE p

\* applyProgressBatch, the fps block
applyFps(p, b) ==
    IF b.fpsSet
    THEN IF b.fps[1] > 0
         THEN [p EXCEPT !.FPS = b.fps, !.LastValidFPS = b.fps]
         ELSE [p EXCEPT !.FPS = b.fps]
    ELSE p

\* applyProgressBatch, the bitrate block
applyBitrate(p, b) ==
    IF b.bitrateSet
    THEN [p EXCEPT !.BitrateRaw = b.bitrateRaw, !.Bitrate = b.bitrate]
    ELSE p

\* applyProgressBatch, the size block
applySize(p, b) == IF b.sizeSet THEN [p EXCEPT !.TotalSize = b.size] ELSE p

\* an out-time block that stores the batch's value whether or not the batch has one
applyOutTimeUnguarded(p, b) == [p EXCEPT !.OutTimeUs = b.outTimeUs]

\* applyProgressBatch, the out-time block
applyOutTime(p, b) == IF b.outTimeSet THEN [p EXCEPT !.OutTimeUs = b.outTimeUs] ELSE p

\* a speed block that stores every parsed speed as the last valid one
applySpeedAnyValue(p, b) ==
    IF b.speedSet
    THEN IF b.speedRaw = "N/A"
         THEN [p EXCEPT !.SpeedRaw = b.speedRaw, !.Speed = "N/A"]
         ELSE [p EXCEPT !.SpeedRaw = b.speedRaw, !.Speed = b.speedRaw,
                        !.LastValidSpeed = b.speed]
    ELSE p

\* applyProgressBatch, the speed block
applySpeed(p, b) ==
    IF b.speedSet
    THEN IF b.speedRaw = "N/A"
         THEN [p EXCEPT !.SpeedRaw = b.speedRaw, !.Speed = "N/A"]
         ELSE IF b.speed[1] > 0
              THEN [p EXCEPT !.SpeedRaw = b.speedRaw, !.Speed = b.speedRaw,
                             !.LastValidSpeed = b.speed]
              ELSE [p EXCEPT !.SpeedRaw = b.speedRaw, !.Speed = b.speedRaw]
    ELSE p

\* applyProgressBatch, the field updates (from Lock to the speed block)
applyFields(p, b) ==
    applySpeed(applyOutTime(applySize(applyBitrate(applyFps(applyFrame(p, b), b), b), b), b), b)

\* the two candidates of calculatePercentageLocked
hasFramePct(p) == p.TotalFrames > 0 /\ p.Frame > 0
hasTimePct(p) == p.TotalDuration > 0 /\ p.OutTimeUs > 0
framePct(p) == Rat(p.Frame * 100, p.TotalFrames)
\* a time-based candidate that measures what remains instead of what is done
timePctRemaining(p) ==
    LET x == Rat(p.TotalDuration - p.OutTimeUs, p.TotalDuration) IN Rat(x[1] * 100, x[2])

timePct(p) == LET x == Rat(p.OutTimeUs, p.TotalDuration) IN Rat(x[1] * 100, x[2])

\* a reconciliation without the 10-point rule: time-based only for an estimated total
reconciledWithoutTolerance(p) ==
    IF hasFramePct(p) /\ hasTimePct(p)
    THEN IF p.FrameEstimated
         THEN clampPercentage(timePct(p))
         ELSE clampPercentage(framePct(p))
    ELSE IF hasTimePct(p) THEN clampPercentage(timePct(p))
    ELSE IF hasFramePct(p) THEN clampPercentage(framePct(p))
    ELSE IntR(0)

\* a reconciliation that does not look at the FrameEstimated flag
reconciledIgnoringEstimate(p) ==
    IF hasFramePct(p) /\ hasTimePct(p)
    THEN IF RLess(IntR(DisagreementPercent), RAbs(RSub(framePct(p), timePct(p))))
         THEN clampPercentage(timePct(p))
         ELSE clampPercentage(framePct(p))
    ELSE IF hasTimePct(p) THEN clampPercentage(timePct(p))
    ELSE IF hasFramePct(p) THEN clampPercentage(framePct(p))
    ELSE IntR(0)

\* calculatePercentageLocked: the value it stores
reconciledPercentage(p) ==
    IF hasFramePct(p) /\ hasTimePct(p)
    THEN LET diff == RAbs(RSub(framePct(p), timePct(p)))
         IN  IF RLess(IntR(DisagreementPercent), diff) \/ p.FrameEstimated
             THEN clampPercentage(timePct(p))
             ELSE clampPercentage(framePct(p))
    ELSE IF hasTimePct(p) THEN clampPercentage(timePct(p))
    ELSE IF hasFramePct(p) THEN clampPercentage(framePct(p))
    ELSE IntR(0)

calculatePercentageLocked(p) == [p EXCEPT !.Percentage = reconciledPercentage(p)]

\* calculatePercentageLocked: the candidate whose value it stores, with the total and
\* the progress value that candidate is computed from
selectedCandidate(p) ==
    LET frame == [cand |-> "frame", total |-> p.TotalFrames, value |-> p.Frame]
        time  == [cand |-> "time", total |-> p.TotalDuration, value |-> p.OutTimeUs]
    IN  IF hasFramePct(p) /\ hasTimePct(p)
        THEN IF RLess(IntR(DisagreementPercent), RAbs(RSub(framePct(p), timePct(p))))
                \/ p.FrameEstimated
             THEN time ELSE frame
        ELSE IF hasTimePct(p) THEN time
        ELSE IF hasFramePct(p) THEN frame
        ELSE [cand |-> "none", total |-> 0, value |-> 0]

\* a warm-up period of two seconds
inWarmupTwoSeconds(p, now) == p.StartTime # 0 /\ now - p.StartTime < 2

\* calculateETALocked: is the call inside the warm-up period
inWarmup(p, now) == p.StartTime # 0 /\ now - p.StartTime < WarmupSeconds

\* calculateETALocked, methods 1 to 3: [method, eta], method 0 when none applies
\* a speed tier that multiplies by the speed instead of dividing by it
speedETAMultiplied(p) ==
    MulDiv(p.TotalDuration - p.OutTimeUs, p.LastValidSpeed[1], p.LastValidSpeed[2])

speedETA(p) == MulDiv(p.TotalDuration - p.OutTimeUs, p.LastValidSpeed[2], p.LastValidSpeed[1])
fpsETA(p) == ScaleTrunc(MicrosPerSecond, RDiv(IntR(p.TotalFrames - p.Frame), p.LastValidFPS))
elapsedETA(p, now) ==
    ScaleTrunc((now - p.StartTime) * MicrosPerSecond,
               RDiv(RSub(IntR(100), p.Percentage), p.Percentage))

\* a tier selection whose frame-rate tier does not look at the FrameEstimated flag
rawETAIgnoringEstimate(p, now) ==
    IF /\ p.LastValidSpeed[1] > 0 /\ p.TotalDuration > 0 /\ p.OutTimeUs > 0
       /\ p.TotalDuration - p.OutTimeUs > 0
    THEN [method |-> 1, eta |-> speedETA(p)]
    ELSE IF /\ p.LastValidFPS[1] > 0 /\ p.TotalFrames > 0 /\ p.Frame > 0
            /\ p.TotalFrames - p.Frame > 0
    THEN [method |-> 2, eta |-> fpsETA(p)]
    ELSE IF /\ RLess(IntR(ExtrapolationMinPercent), p.Percentage) /\ p.StartTime # 0
            /\ now - p.StartTime > ExtrapolationSeconds
            /\ RLess(p.Percentage, IntR(100))
    THEN [method |-> 3, eta |-> elapsedETA(p, now)]
    ELSE [method |-> 0, eta |-> 0]

\* a tier selection whose elapsed-time tier asks for a percentage above 0, not 2
rawETAWithoutMinPercent(p, now) ==
    IF /\ p.LastValidSpeed[1] > 0 /\ p.TotalDuration > 0 /\ p.OutTimeUs > 0
       /\ p.TotalDuration - p.OutTimeUs > 0
    THEN [method |-> 1, eta |-> speedETA(p)]
    ELSE IF /\ ~p.FrameEstimated
            /\ p.LastValidFPS[1] > 0 /\ p.TotalFrames > 0 /\ p.Frame > 0
            /\ p.TotalFrames - p.Frame > 0
    THEN [method |-> 2, eta |-> fpsETA(p)]
    ELSE IF /\ RLess(IntR(0), p.Percentage) /\ p.StartTime # 0
            /\ now - p.StartTime > ExtrapolationSeconds
            /\ RLess(p.Percentage, IntR(100))
    THEN [method |-> 3, eta |-> elapsedETA(p, now)]
    ELSE [method |-> 0, eta |-> 0]

rawETA(p, now) ==
    IF /\ p.LastValidSpeed[1] > 0 /\ p.TotalDuration > 0 /\ p.OutTimeUs > 0
       /\ p.TotalDuration - p.OutTimeUs > 0
    THEN [method |-> 1, eta |-> speedETA(p)]
    ELSE IF /\ ~p.FrameEstimated
            /\ p.LastValidFPS[1] > 0 /\ p.TotalFrames > 0 /\ p.Frame > 0
            /\ p.TotalFrames - p.Frame > 0
    THEN [method |-> 2, eta |-> fpsETA(p)]
    ELSE IF /\ RLess(IntR(ExtrapolationMinPercent), p.Percentage) /\ p.StartTime # 0
            /\ now - p.StartTime > ExtrapolationSeconds
            /\ RLess(p.Percentage, IntR(100))
    THEN [method |-> 3, eta |-> elapsedETA(p, now)]
    ELSE [method |-> 0, eta |-> 0]

\* a smoothing with the one weight 0.3, however far the new ETA is from the old
smoothedETAOneWeight(p, new) ==
    IF p.ETAAvailable /\ p.ETA > 0 THEN (3 * new + 7 * p.ETA) \div 10 ELSE new

\* calculateETALocked, the smoothing of a new ETA against the stored one
smoothedETA(p, new) ==
    IF p.ETAAvailable /\ p.ETA > 0
    THEN IF 2 * Abs(new - p.ETA) > p.ETA
         THEN (2 * new + 8 * p.ETA) \div 10
         ELSE (3 * new + 7 * p.ETA) \div 10
    ELSE new

\* an ETA computation that clears ETAAvailable and leaves the stored ETA as it was
calculateETALockedKeepingETA(p, now) ==
    IF inWarmup(p, now) THEN [p EXCEPT !.ETAAvailable = FALSE]
    ELSE IF rawETA(p, now).method = 0 THEN [p EXCEPT !.ETAAvailable = FALSE]
    ELSE [p EXCEPT !.ETA = smoothedETA(p, rawETA(p, now).eta), !.ETAAvailable = TRUE]

calculateETALocked(p, now) ==
    IF inWarmup(p, now) THEN [p EXCEPT !.ETAAvailable = FALSE, !.ETA = -1]
    ELSE IF rawETA(p, now).method = 0 THEN [p EXCEPT !.ETAAvailable = FALSE, !.ETA = -1]
    ELSE [p EXCEPT !.ETA = smoothedETA(p, rawETA(p, now).eta), !.ETAAvailable = TRUE]

\* a finalization that leaves the total frame count as it was
finalizeProgressNoOverride(p) ==
    [p EXCEPT !.Percentage = IntR(100), !.ETA = 0, !.ETAAvailable = FALSE]

\* finalizeProgressLocked
finalizeProgressLocked(p) ==
    LET q == IF p.Frame > 0
             THEN [p EXCEPT !.TotalFrames = p.Frame, !.FrameEstimated = FALSE]
             ELSE p
    IN  [q EXCEPT !.Percentage = IntR(100), !.ETA = 0, !.ETAAvailable = FALSE]

\* parseProgress: scanner.Scan() returned a line
ScanLineOf(lines, maxLines, maxBatches) ==
    /\ pcOut = "scan"
    /\ marker # "end"
    /\ \E line \in lines \cup Markers :
          IF HasPrefix(line, "progress=")
          THEN /\ nBatches < maxBatches
               /\ pcOut' = "apply"
               /\ marker' = IF line = "progress=end" THEN "end" ELSE "continue"
               /\ UNCHANGED <<batch, nOutLines>>
          ELSE /\ nOutLines < maxLines
               /\ batch' = parseLine(batch, line)
               /\ nOutLines' = nOutLines + 1
               /\ UNCHANGED <<pcOut, marker>>
    /\ UNCHANGED <<Progress, Done, Error, LogLines, mu, cmd, pcMain, pcErr, pcWait, clock,
                   newETA, etaMethod, pctBasis, committed, State, CurrentProgress, tickPending,
                   nBatches, nErrLines, call>>

ScanLine == ScanLineOf(StdoutLines, MaxOutLines, MaxBatches)
ScenarioScanLine == ScanLineOf(ScenarioStdoutLines, MaxScenarioLines, MaxScenarioBatches)
PipelineScanLine == ScanLineOf(PipelineStdoutLines, MaxPipelineLines, MaxPipelineBatches)
ETAScanLine == ScanLineOf(ETAStdoutLines, MaxETALines, MaxETABatches)
DoneScanLine == ScanLineOf(DoneStdoutLines, MaxDoneLines, MaxDoneBatches)
ParseScanLine == ScanLineOf(ParseStdoutLines, MaxParseLines, MaxParseBatches)
LiveScanLine == ScanLineOf(LiveStdoutLines, MaxLiveLines, MaxLiveBatches)

\* parseProgress: scanner.Scan() returned false; the reader error is logged and a
\* remaining batch is applied
ScanEnd ==
    /\ pcOut = "scan"
    /\ cmd \in {"exited", "failed"}
    /\ \/ UNCHANGED LogLines
       \/ /\ mu = "free"
          /\ LogLines' = appendBounded(LogLines, 1)
    /\ IF batch.frameSet \/ batch.fpsSet \/ batch.sizeSet
       THEN pcOut' = "apply" /\ marker' = "eof"
       ELSE pcOut' = "exit" /\ UNCHANGED marker
    /\ UNCHANGED <<Progress, Done, Error, mu, cmd, pcMain, batch, pcErr, pcWait, clock,
                   newETA, etaMethod, pctBasis, committed, State, CurrentProgress, tickPending,
                   nBatches, nOutLines, nErrLines, call>>

\* applyProgressBatch: e.mu.Lock() and the field updates
ApplyBatchFields ==
    /\ pcOut = "apply"
    /\ mu = "free"
    /\ mu' = "parseProgress"
    /\ Progress' = applyFields(Progress, batch)
    /\ pcOut' = "calc"
    /\ UNCHANGED <<Done, Error, LogLines, cmd, pcMain, marker, batch, pcErr, pcWait, clock,
                   newETA, etaMethod, pctBasis, committed, State, CurrentProgress, tickPending,
                   nBatches, nOutLines, nErrLines, call>>

\* an applyProgressBatch that returns without unlocking the mutex
ApplyBatchCalcKeepingLock(samples) ==
    /\ pcOut = "calc"
    /\ \E now \in {Progress.StartTime + e : e \in samples} :
          LET p == calculatePercentageLocked(Progress)
          IN  /\ now >= clock
              /\ clock' = now
              /\ Progress' = calculateETALocked(p, now)
              /\ newETA' = IF inWarmup(p, now) THEN 0 ELSE rawETA(p, now).eta
              /\ etaMethod' = IF inWarmup(p, now) THEN 0 ELSE rawETA(p, now).method
    /\ pctBasis' = selectedCandidate(Progress)
    /\ committed' = Progress'
    /\ mu' = mu
    /\ nBatches' = nBatches + 1
    /\ pcOut' = CASE marker = "end" -> "final"
                  [] marker = "eof" -> "exit"
                  [] OTHER -> "scan"
    /\ batch' = IF marker = "continue" THEN ZeroBatch ELSE batch
    /\ UNCHANGED <<Done, Error, LogLines, cmd, pcMain, marker, pcErr, pcWait, State,
                   CurrentProgress, tickPending, nOutLines, nErrLines, call>>

\* applyProgressBatch: calculatePercentageLocked, calculateETALocked and the unlock
ApplyBatchCalcOf(samples) ==
    /\ pcOut = "calc"
    /\ \E now \in {Progress.StartTime + e : e \in samples} :
          LET p == calculatePercentageLocked(Progress)
          IN  /\ now >= clock
              /\ clock' = now
              /\ Progress' = calculateETALocked(p, now)
              /\ newETA' = IF inWarmup(p, now) THEN 0 ELSE rawETA(p, now).eta
              /\ etaMethod' = IF inWarmup(p, now) THEN 0 ELSE rawETA(p, now).method
    /\ pctBasis' = selectedCandidate(Progress)
    /\ committed' = Progress'
    /\ mu' = "free"
    /\ nBatches' = nBatches + 1
    /\ pcOut' = CASE marker = "end" -> "final"
                  [] marker = "eof" -> "exit"
                  [] OTHER -> "scan"
    /\ batch' = IF marker = "continue" THEN ZeroBatch ELSE batch
    /\ UNCHANGED <<Done, Error, LogLines, cmd, pcMain, marker, pcErr, pcWait, State,
                   CurrentProgress, tickPending, nOutLines, nErrLines, call>>

ApplyBatchCalc == ApplyBatchCalcOf(ElapsedSamples)
PipelineApplyBatchCalc == ApplyBatchCalcOf(PipelineElapsedSamples)
ScenarioApplyBatchCalc == ApplyBatchCalcOf(ScenarioElapsedSamples)
ETAApplyBatchCalc == ApplyBatchCalcOf(ETAElapsedSamples)
DoneApplyBatchCalc == ApplyBatchCalcOf(DoneElapsedSamples)
ParseApplyBatchCalc == ApplyBatchCalcOf(ParseElapsedSamples)
LiveApplyBatchCalc == ApplyBatchCalcOf(LiveElapsedSamples)

\* parseProgress: finalizeProgressLocked after the progress=end marker
FinalizeOnEnd ==
    /\ pcOut = "final"
    /\ mu = "free"
    /\ Progress' = finalizeProgressLocked(Progress)
    /\ committed' = Progress'
    /\ pctBasis' = FinalBasis
    /\ batch' = ZeroBatch
    /\ pcOut' = "scan"
    /\ UNCHANGED <<Done, Error, LogLines, mu, cmd, pcMain, marker, pcErr, pcWait, clock,
                   newETA, etaMethod, State, CurrentProgress, tickPending, nBatches,
                   nOutLines, nErrLines, call>>

----------------------------------------------------------------------------
(* captureStderr: the stderr pump *)

StderrLines ==
    { "  Duration: 00:00:04.00, start: 0.000000, bitrate: 1000 kb/s",
      "frame=   20 fps= 25 q=30.0 size=       4kB time=00:00:02.00" }

\* the stderr lines in the runs of the probes: a duration of 20 minutes, one of
\* 5 hundredths of a second, one of zero, a stream line with a frame rate and a
\* time base rate, and a progress line
ProbeStderrLines ==
    { "  Duration: 00:20:00.00, start: 0.000000, bitrate: 1000 kb/s",
      "  Duration: 00:00:00.05, start: 0.000000, bitrate: 1000 kb/s",
      "  Duration: 00:00:00.00, start: 0.000000, bitrate: 1000 kb/s",
      "    Stream #0:0: Video: h264, 25 fps, 30 tbr",
      "frame=   20 fps= 25 q=30.0 size=       4kB time=00:00:02.00" }

\* durationRe: Duration: (\d{2}):(\d{2}):(\d{2})\.(\d{2}) matches at position i
durationAt(line, i) ==
    /\ i + 20 <= Len(line)
    /\ HasAt(line, i, "Duration: ")
    /\ \A k \in {10, 11, 13, 14, 16, 17, 19, 20} : Ch(line, i + k) \in Digits
    /\ Ch(line, i + 12) = ":" /\ Ch(line, i + 15) = ":" /\ Ch(line, i + 18) = "."

\* the leftmost match of durationRe, 0 when there is none
durationMatch(line) ==
    IF \E i \in 1..Len(line) : durationAt(line, i)
    THEN CHOOSE i \in 1..Len(line) :
             durationAt(line, i) /\ \A j \in 1..(i - 1) : ~durationAt(line, j)
    ELSE 0

\* the total duration of a matched Duration line, microseconds
matchedDuration(line, i) ==
    LET h   == DigitsVal(SubSeq(line, i + 10, i + 11))
        min == DigitsVal(SubSeq(line, i + 13, i + 14))
        sec == DigitsVal(SubSeq(line, i + 16, i + 17))
        cs  == DigitsVal(SubSeq(line, i + 19, i + 20))
    IN  h * 3600 * MicrosPerSecond + min * 60 * MicrosPerSecond
        + sec * MicrosPerSecond + cs * 10 * 1000

\* the end of the run of digits that starts at i (i - 1 when there is none)
RECURSIVE digitsEnd(_, _)
digitsEnd(line, i) == IF i <= Len(line) /\ Ch(line, i) \in Digits
                      THEN digitsEnd(line, i + 1) ELSE i - 1

RECURSIVE skipSpace(_, _)
skipSpace(line, i) == IF i <= Len(line) /\ Ch(line, i) \in Space
                      THEN skipSpace(line, i + 1) ELSE i

\* (\d+(?:\.\d+)?)\s*<unit> matched from position i: the end of the capture, 0 if none
rateAt(line, i, unit) ==
    LET e1 == digitsEnd(line, i)
        e2 == IF e1 + 1 <= Len(line) /\ Ch(line, e1 + 1) = "." /\ digitsEnd(line, e1 + 2) > e1 + 1
              THEN digitsEnd(line, e1 + 2) ELSE e1
        u2 == skipSpace(line, e2 + 1)
        u1 == skipSpace(line, e1 + 1)
    IN  IF e1 < i THEN 0
        ELSE IF HasAt(line, u2, unit) THEN e2
        ELSE IF HasAt(line, u1, unit) THEN e1
        ELSE 0

\* the number captured by the leftmost match of the rate pattern, "" when none
rateMatch(line, unit) ==
    IF \E i \in 1..Len(line) : rateAt(line, i, unit) > 0
    THEN LET i == CHOOSE i \in 1..Len(line) :
                      rateAt(line, i, unit) > 0
                      /\ \A j \in 1..(i - 1) : rateAt(line, j, unit) = 0
         IN  SubSeq(line, i, rateAt(line, i, unit))
    ELSE ""

validRate(text) ==
    LET fps == ParseFloat(text)
    IN  text # "" /\ fps.ok /\ fps.val[1] > 0 /\ RLess(fps.val, IntR(MaxSourceFPS))

\* a duration block that re-estimates the total whatever the FrameEstimated flag
stderrDurationOverwriting(p, line) ==
    LET i        == durationMatch(line)
        totalDur == matchedDuration(line, i)
    IN  IF p.TotalDuration = 0 /\ i > 0
        THEN IF p.SourceFPS[1] > 0
             THEN [p EXCEPT !.TotalDuration = totalDur,
                            !.TotalFrames = Trunc(RMul(Rat(totalDur, MicrosPerSecond), p.SourceFPS)),
                            !.FrameEstimated = TRUE]
             ELSE [p EXCEPT !.TotalDuration = totalDur]
        ELSE p

\* captureStderr: the duration block of one line
stderrDuration(p, line) ==
    LET i        == durationMatch(line)
        totalDur == matchedDuration(line, i)
    IN  IF p.TotalDuration = 0 /\ i > 0
        THEN IF p.SourceFPS[1] > 0 /\ (p.TotalFrames = 0 \/ p.FrameEstimated)
             THEN [p EXCEPT !.TotalDuration = totalDur,
                            !.TotalFrames = Trunc(RMul(Rat(totalDur, MicrosPerSecond), p.SourceFPS)),
                            !.FrameEstimated = TRUE]
             ELSE [p EXCEPT !.TotalDuration = totalDur]
        ELSE p

\* a source frame rate block that takes every announcement
stderrSourceFPSEveryTime(p, line) ==
    LET fps == rateMatch(line, "fps")
        tbr == rateMatch(line, "tbr")
    IN  IF validRate(fps) THEN [p EXCEPT !.SourceFPS = ParseFloat(fps).val]
        ELSE IF validRate(tbr) THEN [p EXCEPT !.SourceFPS = ParseFloat(tbr).val]
        ELSE p

\* captureStderr: the source frame rate block of one line
stderrSourceFPS(p, line) ==
    LET fps == rateMatch(line, "fps")
        tbr == rateMatch(line, "tbr")
    IN  IF p.SourceFPS[1] # 0 THEN p
        ELSE IF validRate(fps) THEN [p EXCEPT !.SourceFPS = ParseFloat(fps).val]
        ELSE IF validRate(tbr) THEN [p EXCEPT !.SourceFPS = ParseFloat(tbr).val]
        ELSE p

\* captureStderr: is the line kept in the log
keptInLog(line) ==
    /\ ~HasPrefix(line, "frame=") /\ ~HasPrefix(line, "size=") /\ ~HasPrefix(line, "fps=")
    /\ line # ""

\* an iteration of the loop that does not take the mutex
StderrLineUnlocked(lines, maxLines) ==
    /\ pcErr = "scan"
    /\ nErrLines < maxLines
    /\ \E line \in lines :
          /\ Progress' = stderrSourceFPS(stderrDuration(Progress, line), line)
          /\ LogLines' = IF keptInLog(line) THEN appendBounded(LogLines, 1) ELSE LogLines
    /\ committed' = Progress'
    /\ nErrLines' = nErrLines + 1
    /\ UNCHANGED <<Done, Error, mu, cmd, pcMain, pcOut, marker, batch, pcErr, pcWait, clock,
                   newETA, etaMethod, pctBasis, State, CurrentProgress, tickPending, nBatches,
                   nOutLines, call>>

\* captureStderr: one iteration of the loop, under the mutex
StderrLineBounded(lines, maxLines) ==
    /\ pcErr = "scan"
    /\ mu = "free"
    /\ nErrLines < maxLines
    /\ \E line \in lines :
          /\ Progress' = stderrSourceFPS(stderrDuration(Progress, line), line)
          /\ LogLines' = IF keptInLog(line) THEN appendBounded(LogLines, 1) ELSE LogLines
    /\ committed' = Progress'
    /\ nErrLines' = nErrLines + 1
    /\ UNCHANGED <<Done, Error, mu, cmd, pcMain, pcOut, marker, batch, pcErr, pcWait, clock,
                   newETA, etaMethod, pctBasis, State, CurrentProgress, tickPending, nBatches,
                   nOutLines, call>>

StderrLineOf(lines) == StderrLineBounded(lines, MaxErrLines)

StderrLine == StderrLineOf(StderrLines)
ProbeStderrLine == StderrLineBounded(ProbeStderrLines, MaxProbeErrLines)

\* captureStderr: scanner.Scan() returned false
StderrEnd ==
    /\ pcErr = "scan"
    /\ cmd \in {"exited", "failed"}
    /\ pcErr' = "exit"
    /\ UNCHANGED <<Progress, Done, Error, LogLines, mu, cmd, pcMain, pcOut, marker, batch,
                   pcWait, clock, newETA, etaMethod, pctBasis, committed, State, CurrentProgress,
                   tickPending, nBatches, nOutLines, nErrLines, call>>

----------------------------------------------------------------------------
(* The subprocess and the goroutine of Start that waits for it *)

\* ffmpeg exits: with status 0, or with an error (a failure or a kill)
ProcessExit ==
    /\ cmd = "running"
    /\ cmd' \in {"exited", "failed"}
    /\ UNCHANGED <<Progress, Done, Error, LogLines, mu, pcMain, pcOut, marker, batch, pcErr,
                   pcWait, clock, newETA, etaMethod, pctBasis, committed, State, CurrentProgress,
                   tickPending, nBatches, nOutLines, nErrLines, call>>

\* a goroutine that starts the progress record afresh when the subprocess failed
WaitReturnDiscarding ==
    /\ pcWait = "wait"
    /\ cmd \in {"exited", "failed"}
    /\ mu = "free"
    /\ IF cmd = "failed"
       THEN /\ Error' = "exit status 1"
            /\ Progress' = [ZeroProgress EXCEPT !.StartTime = Progress.StartTime]
            /\ UNCHANGED pctBasis
       ELSE /\ Progress' = finalizeProgressLocked(Progress)
            /\ pctBasis' = FinalBasis
            /\ UNCHANGED Error
    /\ LogLines' = LogLines + 1
    /\ Done' = TRUE
    /\ committed' = Progress'
    /\ pcWait' = "done"
    /\ UNCHANGED <<mu, cmd, pcMain, pcOut, marker, batch, pcErr, clock, newETA, etaMethod,
                   State, CurrentProgress, tickPending, nBatches, nOutLines, nErrLines, call>>

\* a goroutine that stores the error of a failed subprocess and leaves Done unset
WaitReturnErrorOnly ==
    /\ pcWait = "wait"
    /\ cmd \in {"exited", "failed"}
    /\ mu = "free"
    /\ IF cmd = "failed"
       THEN /\ Error' = "exit status 1"
            /\ UNCHANGED <<Progress, pctBasis>>
       ELSE /\ Progress' = finalizeProgressLocked(Progress)
            /\ pctBasis' = FinalBasis
            /\ UNCHANGED Error
    /\ LogLines' = LogLines + 1
    /\ Done' = (cmd # "failed")
    /\ committed' = Progress'
    /\ pcWait' = "done"
    /\ UNCHANGED <<mu, cmd, pcMain, pcOut, marker, batch, pcErr, clock, newETA, etaMethod,
                   State, CurrentProgress, tickPending, nBatches, nOutLines, nErrLines, call>>

\* the goroutine of Start: cmd.Wait() returned
WaitReturn ==
    /\ pcWait = "wait"
    /\ cmd \in {"exited", "failed"}
    /\ mu = "free"
    /\ IF cmd = "failed"
       THEN /\ Error' = "exit status 1"
            /\ UNCHANGED <<Progress, pctBasis>>
       ELSE /\ Progress' = finalizeProgressLocked(Progress)
            /\ pctBasis' = FinalBasis
            /\ UNCHANGED Error
    /\ LogLines' = LogLines + 1
    /\ Done' = TRUE
    /\ committed' = Progress'
    /\ pcWait' = "done"
    /\ UNCHANGED <<mu, cmd, pcMain, pcOut, marker, batch, pcErr, clock, newETA, etaMethod,
                   State, CurrentProgress, tickPending, nBatches, nOutLines, nErrLines, call>>

----------------------------------------------------------------------------
(* The TUI: Model.Update and the renderer *)

\* startEncoding returned SkippedMsg: the source bitrate is below the minimum
SkippedMsg ==
    /\ pcMain = "new"
    /\ pcMain' = "skipped"
    /\ State' = "StateSkipped"
    /\ UNCHANGED <<Progress, Done, Error, LogLines, mu, cmd, pcOut, marker, batch, pcErr,
                   pcWait, clock, newETA, etaMethod, pctBasis, committed, CurrentProgress,
                   tickPending, nBatches, nOutLines, nErrLines, call>>

\* Update on EncoderStartedMsg
EncoderStartedMsg ==
    /\ pcMain = "started"
    /\ pcMain' = "delivered"
    /\ State' = "StateEncoding"
    /\ tickPending' = TRUE
    /\ UNCHANGED <<Progress, Done, Error, LogLines, mu, cmd, pcOut, marker, batch, pcErr,
                   pcWait, clock, newETA, etaMethod, pctBasis, committed, CurrentProgress,
                   nBatches, nOutLines, nErrLines, call>>

\* Update on EncoderErrorMsg
EncoderErrorMsg ==
    /\ pcMain = "failed"
    /\ pcMain' = "reported"
    /\ State' = "StateError"
    /\ UNCHANGED <<Progress, Done, Error, LogLines, mu, cmd, pcOut, marker, batch, pcErr,
                   pcWait, clock, newETA, etaMethod, pctBasis, committed, CurrentProgress,
                   tickPending, nBatches, nOutLines, nErrLines, call>>

\* strconv of a natural number
DigitChar(d) ==
    CASE d = 0 -> "0" [] d = 1 -> "1" [] d = 2 -> "2" [] d = 3 -> "3" [] d = 4 -> "4"
      [] d = 5 -> "5" [] d = 6 -> "6" [] d = 7 -> "7" [] d = 8 -> "8" [] d = 9 -> "9"

RECURSIVE Itoa(_)
Itoa(n) == IF n < 10 THEN DigitChar(n) ELSE Itoa(n \div 10) \o DigitChar(n % 10)

\* fmt.Sprintf("%.1f%%", pct) for pct >= 0: one decimal, ties to even
SprintfPercent(pct) ==
    LET q      == (pct[1] * 10) \div pct[2]
        r      == (pct[1] * 10) % pct[2]
        tenths == IF 2 * r > pct[2] \/ (2 * r = pct[2] /\ q % 2 = 1) THEN q + 1 ELSE q
    IN  Itoa(tenths \div 10) \o "." \o DigitChar(tenths % 10) \o "%"

\* formatPercentage
formatPercentage(pct, totalFrames, totalDuration) ==
    LET clamped == IF pct[1] < 0 THEN IntR(0)
                   ELSE IF RLess(IntR(100), pct) THEN IntR(100) ELSE pct
        capped  == IF RLess(Rat(999, 10), clamped) THEN Rat(999, 10) ELSE clamped
    IN  IF totalFrames = 0 /\ totalDuration = 0 THEN "..." ELSE SprintfPercent(capped)

\* renderEncodingView: is there any progress data yet
hasProgressData(prog) == prog.Frame > 0 \/ prog.OutTimeUs > 0

\* a percentage text that does not wait for progress data
pctStrUnguarded(prog) ==
    formatPercentage(prog.Percentage, prog.TotalFrames, prog.TotalDuration)

\* renderEncodingView: the percentage text next to the progress bar
pctStr(prog) ==
    IF ~hasProgressData(prog) THEN "..."
    ELSE formatPercentage(prog.Percentage, prog.TotalFrames, prog.TotalDuration)

\* a GetState that reads e.Progress without taking the mutex
GetStateUnlocked == TRUE

\* GetState: e.mu.Lock() succeeds
GetStateLocked == mu = "free"

\* an Update on TickMsg that schedules no further tick
TickMsgOnce ==
    /\ tickPending
    /\ GetStateLocked
    /\ CurrentProgress' = Progress
    /\ IF Done
       THEN /\ State' = IF Error # "nil" THEN "StateError" ELSE "StateDone"
            /\ tickPending' = FALSE
       ELSE tickPending' = FALSE /\ UNCHANGED State
    /\ UNCHANGED <<Progress, Done, Error, LogLines, mu, cmd, pcMain, pcOut, marker, batch,
                   pcErr, pcWait, clock, newETA, etaMethod, pctBasis, committed, nBatches,
                   nOutLines, nErrLines, call>>

\* Update on TickMsg: GetState, the local copy, the state change or the next tick
TickMsg ==
    /\ tickPending
    /\ GetStateLocked
    /\ CurrentProgress' = Progress
    /\ IF Done
       THEN /\ State' = IF Error # "nil" THEN "StateError" ELSE "StateDone"
            /\ tickPending' = FALSE
       ELSE UNCHANGED <<State, tickPending>>
    /\ UNCHANGED <<Progress, Done, Error, LogLines, mu, cmd, pcMain, pcOut, marker, batch,
                   pcErr, pcWait, clock, newETA, etaMethod, pctBasis, committed, nBatches,
                   nOutLines, nErrLines, call>>

----------------------------------------------------------------------------

Next ==
    \/ GetTotalFrames
    \/ Start
    \/ ScanLine
    \/ ScanEnd
    \/ ApplyBatchFields
    \/ ApplyBatchCalc
    \/ FinalizeOnEnd
    \/ StderrLine
    \/ StderrEnd
    \/ ProcessExit
    \/ WaitReturn
    \/ SkippedMsg
    \/ EncoderStartedMsg
    \/ EncoderErrorMsg
    \/ TickMsg

Spec == Init /\ [][Next]_vars

\* the estimation pipeline alone, on more inputs: the probes, Start, the stdout pump
\* up to the progress=end marker and the stderr pump, while ffmpeg runs
PipelineNext ==
    \/ GetTotalFrames
    \/ Start
    \/ PipelineScanLine
    \/ ApplyBatchFields
    \/ PipelineApplyBatchCalc
    \/ FinalizeOnEnd
    \/ StderrLine

SpecPipeline == Init /\ [][PipelineNext]_vars

\* the batch the design documents walk through, on a source whose total of 1000
\* frames is estimated from its 50 s duration
ScenarioNext ==
    \/ ScenarioGetTotalFrames
    \/ Start
    \/ ScenarioScanLine
    \/ ApplyBatchFields
    \/ ScenarioApplyBatchCalc
    \/ FinalizeOnEnd

SpecScenario == Init /\ [][ScenarioNext]_vars

\* the ETA tiers and the smoothing, over consecutive batches
ETANext ==
    \/ GetTotalFrames
    \/ Start
    \/ ETAScanLine
    \/ ApplyBatchFields
    \/ ETAApplyBatchCalc
    \/ FinalizeOnEnd

SpecETA == Init /\ [][ETANext]_vars

\* the probes on more outcomes, Start, and the stderr pump
ProbeNext ==
    \/ ProbeGetTotalFrames
    \/ Start
    \/ ProbeStderrLine

SpecProbe == Init /\ [][ProbeNext]_vars

\* the line parser on good and bad lines, and the batches it fills
ParseNext ==
    \/ GetTotalFrames
    \/ Start
    \/ ParseScanLine
    \/ ApplyBatchFields
    \/ ParseApplyBatchCalc
    \/ FinalizeOnEnd

SpecParse == Init /\ [][ParseNext]_vars

\* Update on the key q or ctrl+c: Encoder.Stop() kills the subprocess, and
\* cmd.Wait() will return an error
Stop ==
    /\ pcMain = "delivered"
    /\ cmd = "running"
    /\ cmd' = "failed"
    /\ UNCHANGED <<Progress, Done, Error, LogLines, mu, pcMain, pcOut, marker, batch, pcErr,
                   pcWait, clock, newETA, etaMethod, pctBasis, committed, State, CurrentProgress,
                   tickPending, nBatches, nOutLines, nErrLines, call>>

LiveStderrLine == StderrLineBounded(StderrLines, MaxLiveErrLines)

\* a run from the probes to the end of the three goroutines of Start
LiveNext ==
    \/ GetTotalFrames
    \/ Start
    \/ EncoderStartedMsg
    \/ LiveScanLine
    \/ ScanEnd
    \/ ApplyBatchFields
    \/ LiveApplyBatchCalc
    \/ FinalizeOnEnd
    \/ LiveStderrLine
    \/ StderrEnd
    \/ ProcessExit
    \/ Stop
    \/ WaitReturn

\* the goroutines are scheduled, and the mutex is granted, if they stay ready: a
\* pump that sees the end of its pipe returns, a pump in applyProgressBatch goes
\* on to its unlock, and the goroutine whose cmd.Wait() returned gets the mutex
SpecLive ==
    /\ Init /\ [][LiveNext]_vars
    /\ WF_vars(ScanEnd) /\ WF_vars(ApplyBatchFields) /\ WF_vars(LiveApplyBatchCalc)
    /\ WF_vars(FinalizeOnEnd) /\ WF_vars(StderrEnd) /\ WF_vars(WaitReturn)

\* os.Stat on a path: an error, or the size of the file
Stat(err, size) == [err |-> err, size |-> size]

\* the input file: missing, empty, or of 1000 bytes
InputStats == { Stat(TRUE, 0), Stat(FALSE, 0), Stat(FALSE, 1000) }

\* the output file: missing, empty, of 500 and of 2000 bytes
OutputStats == { Stat(TRUE, 0), Stat(FALSE, 0), Stat(FALSE, 500), Stat(FALSE, 2000) }

\* Config.MaxSizePercent: the check disabled, or a limit of 80 %
MaxSizePercents == { 0, 80 }

\* a float64 quotient of two integers that are not negative: a number, or +Inf
\* and NaN when the divisor is 0
FloatQuotient(a, b) ==
    IF b # 0 THEN [kind |-> "num", val |-> Rat(a, b)]
    ELSE IF a = 0 THEN [kind |-> "NaN", val |-> IntR(0)]
    ELSE [kind |-> "+Inf", val |-> IntR(0)]

\* CheckOutputSize: the ratio is a float64, and +Inf <= n and NaN <= n are false
CheckOutputSize(maxSizePercent, inputInfo, outputInfo) ==
    LET quot  == FloatQuotient(outputInfo.size, inputInfo.size)
        ratio == IF quot.kind = "num" THEN [quot EXCEPT !.val = RMul(quot.val, IntR(100))]
                 ELSE quot
    IN  IF maxSizePercent = 0
        THEN [passed |-> TRUE, ratio |-> [kind |-> "num", val |-> IntR(0)], err |-> "nil"]
        ELSE IF inputInfo.err \/ outputInfo.err
        THEN [passed |-> FALSE, ratio |-> [kind |-> "num", val |-> IntR(0)], err |-> "stat"]
        ELSE [passed |-> ratio.kind = "num" /\ RLeq(ratio.val, IntR(maxSizePercent)),
              ratio |-> ratio, err |-> "nil"]

\* GetActualOutputSize
GetActualOutputSize(info) ==
    IF info.err THEN [size |-> 0, err |-> "stat"] ELSE [size |-> info.size, err |-> "nil"]

\* a final size that is the result of the lookup whether or not it failed
finalSizeFromDisk(prog, info) == GetActualOutputSize(info).size

\* renderDoneView: the final size shown
finalSize(prog, info) ==
    IF GetActualOutputSize(info).err = "nil" THEN GetActualOutputSize(info).size
    ELSE prog.TotalSize

\* View in StateDone: renderDoneView looks up the output size and checks the ratio
renderDoneView ==
    /\ State = "StateDone"
    /\ \E inputInfo \in InputStats, outputInfo \in OutputStats,
          maxSizePercent \in MaxSizePercents :
          call' = [fn |-> "renderDoneView",
                   arg |-> [input |-> inputInfo, output |-> outputInfo,
                            maxSizePercent |-> maxSizePercent],
                   res |-> [finalSize |-> finalSize(CurrentProgress, outputInfo),
                            check |-> CheckOutputSize(maxSizePercent, inputInfo, outputInfo)]]
    /\ UNCHANGED <<Progress, Done, Error, LogLines, mu, cmd, pcMain, pcOut, marker, batch, pcErr,
                   pcWait, clock, newETA, etaMethod, pctBasis, committed, State, CurrentProgress,
                   tickPending, nBatches, nOutLines, nErrLines>>

\* a run from the probes to the completion view
DoneNext ==
    \/ GetTotalFrames
    \/ Start
    \/ EncoderStartedMsg
    \/ DoneScanLine
    \/ ApplyBatchFields
    \/ DoneApplyBatchCalc
    \/ FinalizeOnEnd
    \/ ProcessExit
    \/ WaitReturn
    \/ TickMsg
    \/ renderDoneView

SpecDone == Init /\ [][DoneNext]_vars

\* the percentages formatPercentage is called on: below 0, 0, inside the range,
\* just below and at 100, and above 100; with and without a total
PercentInputs ==
    { Rat(-10, 1), Rat(-1, 100), IntR(0), IntR(50), Rat(999, 10), Rat(9995, 100), IntR(100),
      Rat(10001, 100), IntR(150) }

\* a call of formatPercentage
CallFormatPercentage ==
    /\ pcMain = "new"
    /\ \E pct \in PercentInputs, totalFrames \in {0, 100},
          totalDuration \in {0, 60 * MicrosPerSecond} :
          call' = [fn |-> "formatPercentage",
                   arg |-> [pct |-> pct, totalFrames |-> totalFrames,
                            totalDuration |-> totalDuration],
                   res |-> formatPercentage(pct, totalFrames, totalDuration)]
    /\ UNCHANGED <<Progress, Done, Error, LogLines, mu, cmd, pcMain, pcOut, marker, batch, pcErr,
                   pcWait, clock, newETA, etaMethod, pctBasis, committed, State, CurrentProgress,
                   tickPending, nBatches, nOutLines, nErrLines>>

\* the timestamps parseOutTime is called on, each with what HH:MM:SS[.fraction]
\* makes of it (ok: three segments, every component a number; us: its
\* microseconds): every combination of good and bad hours, minutes, seconds and
\* fractions, and texts with one, two and four segments
OutTimeInputs ==
    LET Part(t, ok, v) == [t |-> t, ok |-> ok, v |-> v]
        Hours == { Part("00", TRUE, 0), Part("0", TRUE, 0), Part("ab", FALSE, 0),
                   Part("", FALSE, 0) }
        Mins  == { Part("00", TRUE, 0), Part("02", TRUE, 120000000), Part("x", FALSE, 0),
                   Part("2a", FALSE, 0) }
        Secs  == { Part("03", TRUE, 3000000), Part("59", TRUE, 59000000), Part("s", FALSE, 0),
                   Part("", FALSE, 0) }
        Fracs == { Part("", TRUE, 0), Part(".5", TRUE, 500000), Part(".456789", TRUE, 456789),
                   Part(".1234567", TRUE, 123456), Part(".abc", FALSE, 0),
                   Part(".12x", FALSE, 0) }
    IN  { [text |-> h.t \o ":" \o m.t \o ":" \o sec.t \o f.t,
           ok   |-> h.ok /\ m.ok /\ sec.ok /\ f.ok,
           us   |-> h.v + m.v + sec.v + f.v] :
             h \in Hours, m \in Mins, sec \in Secs, f \in Fracs }
        \cup { [text |-> t, ok |-> FALSE, us |-> 0] :
                 t \in {"", "N/A", "123", "12:34", "00:01:02:03"} }

\* a call of parseOutTime
CallParseOutTime ==
    /\ pcMain = "new"
    /\ \E in \in OutTimeInputs :
          call' = [fn |-> "parseOutTime", arg |-> in, res |-> parseOutTime(in.text)]
    /\ UNCHANGED <<Progress, Done, Error, LogLines, mu, cmd, pcMain, pcOut, marker, batch, pcErr,
                   pcWait, clock, newETA, etaMethod, pctBasis, committed, State, CurrentProgress,
                   tickPending, nBatches, nOutLines, nErrLines>>

\* parseSpeed with an expression that does not end at the end of the line
parseSpeedUnanchored(line) ==
    LET n == Len(line)
        \* the end of the longest run of characters of S that starts at j
        RunEnd(j, S) == CHOOSE e \in (j - 1)..n :
                            /\ \A k \in j..e : Ch(line, k) \in S
                            /\ (e = n \/ Ch(line, e + 1) \notin S)
        \* the group captured by a match that starts at i, <<0, 0>> when none does
        Capture(i) == LET j  == RunEnd(i + 6, Space) + 1
                          e  == RunEnd(j, Digits \cup {"."})
                          to == IF e >= j /\ HasAt(line, e + 1, "x") THEN e + 1
                                ELSE IF HasAt(line, j, "N/A") THEN j + 2
                                ELSE 0
                      IN  IF /\ HasAt(line, i, "speed=")
                             /\ to # 0
                          THEN <<j, to>>
                          ELSE <<0, 0>>
        starts == { i \in 1..n : Capture(i) # <<0, 0>> }
        m      == Capture(CHOOSE i \in starts : \A k \in starts : i <= k)
        raw    == SubSeq(line, m[1], m[2])
        speed  == ParseFloat(TrimSuffix(raw, "x"))
    IN  IF starts = {} THEN [speed |-> <<0, 1>>, raw |-> "", ok |-> FALSE]
        ELSE IF raw = "N/A" THEN [speed |-> <<0, 1>>, raw |-> raw, ok |-> TRUE]
        ELSE IF ~speed.ok THEN [speed |-> <<0, 1>>, raw |-> raw, ok |-> FALSE]
        ELSE [speed |-> speed.val, raw |-> raw, ok |-> TRUE]

\* parseSpeed: the leftmost match of speed=\s*([\d.]+x|N/A)\s*$ in the line; the
\* captured token is N/A or is parsed as a float after its x is cut off
parseSpeed(line) ==
    LET n == Len(line)
        \* the end of the longest run of characters of S that starts at j
        RunEnd(j, S) == CHOOSE e \in (j - 1)..n :
                            /\ \A k \in j..e : Ch(line, k) \in S
                            /\ (e = n \/ Ch(line, e + 1) \notin S)
        \* the group captured by a match that starts at i, <<0, 0>> when none does
        Capture(i) == LET j  == RunEnd(i + 6, Space) + 1
                          e  == RunEnd(j, Digits \cup {"."})
                          to == IF e >= j /\ HasAt(line, e + 1, "x") THEN e + 1
                                ELSE IF HasAt(line, j, "N/A") THEN j + 2
                                ELSE 0
                      IN  IF /\ HasAt(line, i, "speed=")
                             /\ to # 0
                             /\ RunEnd(to + 1, Space) = n
                          THEN <<j, to>>
                          ELSE <<0, 0>>
        starts == { i \in 1..n : Capture(i) # <<0, 0>> }
        m      == Capture(CHOOSE i \in starts : \A k \in starts : i <= k)
        raw    == SubSeq(line, m[1], m[2])
        speed  == ParseFloat(TrimSuffix(raw, "x"))
    IN  IF starts = {} THEN [speed |-> <<0, 1>>, raw |-> "", ok |-> FALSE]
        ELSE IF raw = "N/A" THEN [speed |-> <<0, 1>>, raw |-> raw, ok |-> TRUE]
        ELSE IF ~speed.ok THEN [speed |-> <<0, 1>>, raw |-> raw, ok |-> FALSE]
        ELSE [speed |-> speed.val, raw |-> raw, ok |-> TRUE]

\* status lines for parseSpeed with the outcome each part decides: whether the
\* line has the key, whether the token has the form of the expression (shaped),
\* whether it is N/A or a number followed by x (ok) with its value, and whether
\* only white space follows the token
SpeedInputs ==
    LET Pre(t, ok) == [t |-> t, ok |-> ok]
        Tok(t, shaped, ok, v) == [t |-> t, shaped |-> shaped, ok |-> ok, v |-> v]
        Prefixes == { Pre("speed=", TRUE), Pre("speed= ", TRUE), Pre("speed=   ", TRUE),
                      Pre("fps= 25 speed=", TRUE), Pre("", FALSE), Pre("sped=", FALSE) }
        Tokens   == { Tok("1x", TRUE, TRUE, Rat(1, 1)), Tok("1.5x", TRUE, TRUE, Rat(3, 2)),
                      Tok("0.5x", TRUE, TRUE, Rat(1, 2)), Tok("2.34x", TRUE, TRUE, Rat(234, 100)),
                      Tok("0x", TRUE, TRUE, Rat(0, 1)), Tok("N/A", TRUE, TRUE, Rat(0, 1)),
                      Tok("1.2.3x", TRUE, FALSE, Rat(0, 1)), Tok(".x", TRUE, FALSE, Rat(0, 1)),
                      Tok("-1x", FALSE, FALSE, Rat(0, 1)), Tok("x", FALSE, FALSE, Rat(0, 1)),
                      Tok("abcx", FALSE, FALSE, Rat(0, 1)), Tok("1.5", FALSE, FALSE, Rat(0, 1)),
                      Tok("1.5X", FALSE, FALSE, Rat(0, 1)), Tok("n/a", FALSE, FALSE, Rat(0, 1)),
                      Tok("", FALSE, FALSE, Rat(0, 1)) }
        Suffixes == { Pre("", TRUE), Pre("  ", TRUE), Pre(" q=1", FALSE) }
    IN  { [line    |-> pre.t \o tok.t \o suf.t,
           token   |-> tok.t,
           matched |-> pre.ok /\ tok.shaped /\ suf.ok,
           ok      |-> pre.ok /\ tok.ok /\ suf.ok,
           speed   |-> tok.v] :
             pre \in Prefixes, tok \in Tokens, suf \in Suffixes }

\* a call of parseSpeed
CallParseSpeed ==
    /\ pcMain = "new"
    /\ \E in \in SpeedInputs :
          call' = [fn |-> "parseSpeed", arg |-> in, res |-> parseSpeed(in.line)]
    /\ UNCHANGED <<Progress, Done, Error, LogLines, mu, cmd, pcMain, pcOut, marker, batch, pcErr,
                   pcWait, clock, newETA, etaMethod, pctBasis, committed, State, CurrentProgress,
                   tickPending, nBatches, nOutLines, nErrLines>>

\* the formatters and parsers called on inputs of their own
CallsNext ==
    \/ CallFormatPercentage
    \/ CallParseOutTime
    \/ CallParseSpeed

SpecCalls == Init /\ [][CallsNext]_vars

\* the run to the completion view with the other outcomes of startEncoding and
\* with the scheduling of the TUI: a message that was sent is delivered to
\* Update, a tick that is scheduled fires and its GetState gets the mutex, which
\* a pump inside applyProgressBatch gives up again
PollNext ==
    \/ DoneNext
    \/ SkippedMsg
    \/ EncoderErrorMsg

SpecPoll ==
    /\ Init /\ [][PollNext]_vars
    /\ WF_vars(EncoderStartedMsg) /\ WF_vars(TickMsg) /\ WF_vars(DoneApplyBatchCalc)

\* the runs of the log: the stderr pump reads a banner line, which is kept, or a
\* progress line, which is not, and the subprocess exits
LogStderrLines ==
    { "Press [q] to stop, [?] for help",
      "frame=   20 fps= 25 q=30.0 size=       4kB time=00:00:02.00" }

LogStderrLine == StderrLineBounded(LogStderrLines, MaxLogErrLines)

LogNext ==
    \/ GetTotalFrames
    \/ Start
    \/ LogStderrLine
    \/ StderrEnd
    \/ ProcessExit
    \/ WaitReturn

SpecLog == Init /\ [][LogNext]_vars

----------------------------------------------------------------------------
(* Properties *)

\* C1: in every reachable state the stored completion percentage
\* (Progress.Percentage) is at least 0 and at most 100
C1_PercentageInRange ==
    RLeq(IntR(0), Progress.Percentage) /\ RLeq(Progress.Percentage, IntR(100))

\* a batch was applied whose media time lies beyond the total duration: the
\* time-based value, above 100, is stored as 100
C1_Witness ==
    /\ mu = "free" /\ nBatches > 0 /\ pctBasis.cand = "time"
    /\ Progress.OutTimeUs > Progress.TotalDuration
    /\ Progress.Percentage = IntR(100)

\* C2: every snapshot GetState hands to the TUI is the progress as it stood at an
\* unlock of the mutex: no snapshot shows a batch whose fields are applied while
\* its percentage and ETA are not yet recomputed
C2_SnapshotsCommitted == [][TickMsg => CurrentProgress' = committed]_vars

\* a snapshot of the first batch is held while the fields of the next batch are
\* applied and its percentage is not yet recomputed
C2_Witness ==
    /\ mu = "parseProgress" /\ nBatches = 1
    /\ CurrentProgress = committed /\ CurrentProgress # Progress
    /\ CurrentProgress.Percentage[1] > 0

\* C3: finalization, after the progress=end marker or after an exit without
\* error, sets TotalFrames to Frame and clears FrameEstimated when Frame > 0, and
\* always sets Percentage to 100 and ETAAvailable to false
C3_Finalization ==
    [][(FinalizeOnEnd \/ (WaitReturn /\ cmd = "exited")) =>
          /\ Progress.Frame > 0 =>
                Progress'.TotalFrames = Progress.Frame /\ ~Progress'.FrameEstimated
          /\ Progress'.Percentage = IntR(100)
          /\ ~Progress'.ETAAvailable]_vars

\* the run ended with progress=end after frame=120 against a total of 100 frames
\* estimated from the 10 s duration: the total is 120, no longer estimated
C3_Witness ==
    /\ marker = "end" /\ pcOut = "scan"
    /\ Progress.TotalDuration = 10 * MicrosPerSecond
    /\ Progress.Frame = 120 /\ Progress.TotalFrames = 120 /\ ~Progress.FrameEstimated
    /\ Progress.Percentage = IntR(100) /\ ~Progress.ETAAvailable

\* C4 as claimed: no step of a run lowers Frame, TotalSize or OutTimeUs, whatever
\* batches ffmpeg writes
C4_NeverDecreases ==
    [][/\ Progress'.Frame >= Progress.Frame
       /\ Progress'.TotalSize >= Progress.TotalSize
       /\ Progress'.OutTimeUs >= Progress.OutTimeUs]_vars

\* C4: Frame, TotalSize and OutTimeUs each hold the value the latest applied batch
\* reported for them; a batch that does not report one leaves it as it was, and so
\* does every other step.  Hence none decreases as long as the reported values do not.
C4_LastReported ==
    [][/\ ApplyBatchFields =>
             /\ Progress'.Frame = IF batch.frameSet THEN batch.frame ELSE Progress.Frame
             /\ Progress'.TotalSize = IF batch.sizeSet THEN batch.size ELSE Progress.TotalSize
             /\ Progress'.OutTimeUs =
                    IF batch.outTimeSet THEN batch.outTimeUs ELSE Progress.OutTimeUs
       /\ ~ApplyBatchFields =>
             /\ Progress'.Frame = Progress.Frame
             /\ Progress'.TotalSize = Progress.TotalSize
             /\ Progress'.OutTimeUs = Progress.OutTimeUs]_vars

\* frame=120 raised the total to 120 and a later batch with frame=20 is applied:
\* the stored frame went from 120 to 20
C4_Witness ==
    /\ nBatches = 2 /\ mu = "free"
    /\ Progress.TotalFrames = 120 /\ Progress.Frame = 20

\* C5 as claimed: a batch that lowers neither Frame nor OutTimeUs does not lower
\* the stored percentage
C5_PercentageMonotonic ==
    [][(/\ PipelineApplyBatchCalc
        /\ Progress.Frame >= committed.Frame
        /\ Progress.OutTimeUs >= committed.OutTimeUs)
          => RLeq(Progress.Percentage, Progress'.Percentage)]_vars

\* C5: a batch does not lower the stored percentage when the reconciler selects for
\* it the candidate it selected for the previous batch, with the same total
\* (TotalFrames or TotalDuration) and a progress value (Frame or OutTimeUs) that is
\* not smaller, and no finalization came in between
C5_SameCandidateMonotonic ==
    [][(/\ PipelineApplyBatchCalc
        /\ pctBasis.cand \in {"frame", "time"}
        /\ selectedCandidate(Progress).cand = pctBasis.cand
        /\ selectedCandidate(Progress).total = pctBasis.total
        /\ selectedCandidate(Progress).value >= pctBasis.value)
          => RLeq(Progress.Percentage, Progress'.Percentage)]_vars

\* the fields of a second batch are applied, the time-based candidate is selected
\* again against the same total duration and the media time has advanced
C5_Witness ==
    /\ pcOut = "calc" /\ nBatches = 1
    /\ pctBasis.cand = "time"
    /\ selectedCandidate(Progress).cand = "time"
    /\ selectedCandidate(Progress).total = pctBasis.total
    /\ selectedCandidate(Progress).value > pctBasis.value

ScenarioBatchApplied ==
    /\ marker = "continue"
    /\ batch.frameSet /\ batch.fpsSet /\ batch.bitrateSet /\ batch.sizeSet
    /\ batch.outTimeSet /\ batch.speedSet
    /\ Progress.Frame = 100 /\ Progress.OutTimeUs = 4166667
    /\ Progress.TotalFrames = 1000 /\ Progress.FrameEstimated
    /\ Progress.TotalDuration = 50 * MicrosPerSecond

C8_PlaceholderWithoutCandidate ==
    (/\ State = "StateEncoding"
     /\ ~hasFramePct(CurrentProgress) /\ ~hasTimePct(CurrentProgress))
        => pctStr(CurrentProgress) = "..."

\* C8: in the encoding view the percentage text is the placeholder exactly when
\* the snapshot has no frame and no media time yet, or has neither a total frame
\* count nor a total duration; with a known total and some progress data a number
\* is shown, also when neither candidate is valid
C8_PlaceholderRule ==
    State = "StateEncoding" =>
        (pctStr(CurrentProgress) = "..." <=>
            \/ CurrentProgress.Frame = 0 /\ CurrentProgress.OutTimeUs = 0
            \/ CurrentProgress.TotalFrames = 0 /\ CurrentProgress.TotalDuration = 0)

\* frames are coming in while the total frame count and the duration are both
\* unknown: the placeholder is shown
C8_Witness ==
    /\ State = "StateEncoding"
    /\ CurrentProgress.Frame > 0
    /\ CurrentProgress.TotalFrames = 0 /\ CurrentProgress.TotalDuration = 0
    /\ pctStr(CurrentProgress) = "..."

SpeedTierApplies(p) ==
    /\ p.LastValidSpeed[1] > 0 /\ p.OutTimeUs > 0 /\ p.TotalDuration > p.OutTimeUs

FrameTierApplies(p) ==
    /\ ~p.FrameEstimated /\ p.LastValidFPS[1] > 0 /\ p.Frame > 0 /\ p.TotalFrames > p.Frame

\* C12: the elapsed-time tier sets the new ETA only when the speed tier and the
\* frame-rate tier produced no result, the stored percentage is above 2 and at least
\* 10 seconds have passed since the start, and then the new ETA is
\* elapsed * (100 - percentage) / percentage; it does set it when more than 10
\* seconds have passed and the percentage is above 2 and below 100; when the two
\* first tiers produce nothing and the percentage is at most 2 or less than 10
\* seconds have passed, the ETA is marked unavailable (-1)
C12_ElapsedTier ==
    [][ETAApplyBatchCalc
          => LET elapsed == clock' - Progress.StartTime
                 pn == Progress'.Percentage[1]
                 pd == Progress'.Percentage[2]
                 prior == SpeedTierApplies(Progress) \/ FrameTierApplies(Progress)
             IN  /\ etaMethod' = 3
                      => /\ ~prior
                         /\ pn > ExtrapolationMinPercent * pd
                         /\ elapsed >= ExtrapolationSeconds
                         /\ newETA' * pn <= elapsed * MicrosPerSecond * (100 * pd - pn)
                         /\ elapsed * MicrosPerSecond * (100 * pd - pn) < (newETA' + 1) * pn
                 /\ (/\ ~prior /\ elapsed > ExtrapolationSeconds
                     /\ pn > ExtrapolationMinPercent * pd /\ pn < 100 * pd)
                      => etaMethod' = 3
                 /\ (~prior /\ (pn <= ExtrapolationMinPercent * pd
                                 \/ elapsed < ExtrapolationSeconds))
                      => (~Progress'.ETAAvailable /\ Progress'.ETA = -1)]_vars

\* frame 20 of an estimated 100 with no speed and no media time, 11 seconds after
\* the start: the new ETA is 11 s * 80 / 20 = 44 s, from the elapsed-time tier
C12_Witness ==
    /\ mu = "free" /\ etaMethod = 3 /\ newETA = 44 * MicrosPerSecond
    /\ clock - Progress.StartTime = 11
    /\ Progress.Percentage = <<20, 1>>
    /\ Progress.FrameEstimated /\ Progress.LastValidSpeed[1] = 0

\* C13: an ETA computation for a batch whose speed is "N/A" leaves the ETA
\* unavailable, with a negative duration
C13_InvalidSpeedUnavailable ==
    [][(ETAApplyBatchCalc /\ batch.speedSet /\ batch.speedRaw = "N/A")
          => (~Progress'.ETAAvailable /\ Progress'.ETA < 0)]_vars

\* a batch with speed=2x and 2 s of 10 s, then a batch with speed=N/A applied 10 s
\* after the start: the speed shown is "N/A" and the ETA is available, 4 s, from
\* the speed tier with the last valid speed
C13_Witness ==
    /\ mu = "free" /\ nBatches = 2 /\ etaMethod = 1
    /\ Progress.Speed = "N/A" /\ Progress.SpeedRaw = "N/A"
    /\ Progress.LastValidSpeed = <<2, 1>>
    /\ Progress.TotalDuration = 10 * MicrosPerSecond
    /\ Progress.OutTimeUs = 2 * MicrosPerSecond
    /\ Progress.ETAAvailable /\ Progress.ETA = 4 * MicrosPerSecond

\* C14 as stated: in every reachable state ETAAvailable is false exactly when the
\* stored ETA is negative
C14_SentinelInvariant == ~Progress.ETAAvailable <=> Progress.ETA < 0

\* C14: in every reachable state an available ETA is at least 0 and an unavailable
\* one is -1 or 0; every ETA computation leaves ETAAvailable false exactly when it
\* leaves the ETA at -1; finalization leaves ETAAvailable false with an ETA of 0
C14_SentinelAfterComputation ==
    /\ [](IF Progress.ETAAvailable THEN Progress.ETA >= 0 ELSE Progress.ETA \in {-1, 0})
    /\ [][(pcOut = "calc" /\ pcOut' # "calc")
             => /\ Progress'.ETAAvailable <=> Progress'.ETA >= 0
                /\ ~Progress'.ETAAvailable => Progress'.ETA = -1]_vars
    /\ [][(pcOut = "final" /\ pcOut' # "final")
             => (~Progress'.ETAAvailable /\ Progress'.ETA = 0)]_vars

\* the batch that ended with progress=end got a positive ETA, and the finalization
\* that followed left ETAAvailable false with an ETA of 0
C14_Witness ==
    /\ pctBasis = FinalBasis /\ etaMethod # 0 /\ newETA > 0
    /\ ~Progress.ETAAvailable /\ Progress.ETA = 0

\* stored is the blend w * new + (10 - w) * old over 10, in whole microseconds
BlendOf(stored, w, new, old) ==
    /\ 10 * stored <= w * new + (10 - w) * old
    /\ w * new + (10 - w) * old < 10 * (stored + 1)

\* the smoothing rule of C15 for a step that computed a new ETA
SmoothingRule(old, new, stored) ==
    IF 2 * Abs(new - old) <= old
    THEN BlendOf(stored, 3, new, old)
    ELSE BlendOf(stored, 2, new, old)

\* C15 as stated: a new ETA is stored as it is when the previous ETA is
\* unavailable, and blended with the previous ETA by the smoothing rule whenever a
\* previous available ETA exists
C15_SmoothedWheneverAvailable ==
    [][(pcOut = "calc" /\ pcOut' # "calc" /\ etaMethod' # 0)
          => IF Progress.ETAAvailable
             THEN SmoothingRule(Progress.ETA, newETA', Progress'.ETA)
             ELSE Progress'.ETA = newETA']_vars

\* C15: a new ETA is stored as it is when the previous ETA is unavailable or is 0;
\* when the previous ETA is available and positive the stored value is
\* 0.3 new + 0.7 old if |new - old| <= 50% of old, and 0.2 new + 0.8 old otherwise
C15_SmoothedWhenPositive ==
    [][(pcOut = "calc" /\ pcOut' # "calc" /\ etaMethod' # 0)
          => IF Progress.ETAAvailable /\ Progress.ETA > 0
             THEN SmoothingRule(Progress.ETA, newETA', Progress'.ETA)
             ELSE Progress'.ETA = newETA']_vars

\* two batches from the elapsed-time tier: 44 s stored at 11 s, then a new ETA of
\* 48 s at 12 s, within 50% of 44 s, stored as 0.3 * 48 + 0.7 * 44 = 45.2 s
C15_Witness ==
    /\ mu = "free" /\ nBatches = 2 /\ etaMethod = 3
    /\ newETA = 48 * MicrosPerSecond
    /\ Progress.ETAAvailable /\ Progress.ETA = 45200000

\* C16: when an ETA computation follows one that left an available ETA and the
\* stored percentage moved by less than 10 points between the two, the stored ETA
\* moves by no more than 20% of the previous stored ETA
C16_SmoothingBound ==
    [][(/\ pcOut = "calc" /\ pcOut' # "calc"
        /\ Progress.ETAAvailable /\ Progress'.ETAAvailable
        /\ \/ Progress'.Percentage = Progress.Percentage
           \/ RLess(RAbs(RSub(Progress'.Percentage, Progress.Percentage)), IntR(10)))
          => 5 * Abs(Progress'.ETA - Progress.ETA) <= Progress.ETA]_vars

\* 2 s of 10 s at speed 2x stored an ETA of 4 s; the next batch reports speed 0.5x
\* at the same media time: the new ETA is 16 s and the stored one 6.4 s, 60% above
\* the previous 4 s, at an unchanged 20%
C16_Witness ==
    /\ mu = "free" /\ nBatches = 2 /\ etaMethod = 1
    /\ Progress.Percentage = <<20, 1>>
    /\ Progress.OutTimeUs = 2 * MicrosPerSecond
    /\ Progress.LastValidSpeed = <<1, 2>>
    /\ newETA = 16 * MicrosPerSecond
    /\ Progress.ETAAvailable /\ Progress.ETA = 6400000

C18_ProbeFailuresNonFatal ==
    [][(pcMain = "new" /\ pcMain' # "new")
          => /\ pcMain' = "probed"
             /\ Progress'.TotalFrames = 0 => LogLines' > LogLines]_vars

\* the frame-rate probe failed (24 assumed), the frame-count and the duration
\* probes failed: GetTotalFrames returned nil with TotalFrames 0 and an empty log
C18_Witness ==
    /\ pcMain = "probed"
    /\ Progress.SourceFPS = <<DefaultSourceFPS, 1>>
    /\ Progress.TotalFrames = 0 /\ Progress.TotalDuration = 0
    /\ LogLines = 0

\* the integer nearest to a non-negative rational
RoundNearest(r) == (2 * r[1] + r[2]) \div (2 * r[2])

\* C19: when GetTotalFrames estimates the total from the duration, the estimate is
\* the integer nearest to duration * SourceFPS, and it is not negative
C19_EstimateIsRounded ==
    [][(pcMain = "new" /\ pcMain' # "new" /\ Progress'.FrameEstimated)
          => /\ Progress'.TotalFrames =
                  RoundNearest(RMul(Rat(Progress'.TotalDuration, MicrosPerSecond),
                                    Progress'.SourceFPS))
             /\ Progress'.TotalFrames >= 0]_vars

\* a duration of 10.06 s at 10 frames per second: the product is 100.6 and the
\* estimated total is 100
C19_Witness ==
    /\ pcMain = "probed" /\ nErrLines = 0
    /\ Progress.TotalDuration = 10060000 /\ Progress.SourceFPS = <<10, 1>>
    /\ Progress.FrameEstimated /\ Progress.TotalFrames = 100

\* C20: a step of GetTotalFrames or of the stderr pump that derives TotalFrames
\* from duration * SourceFPS (it changes TotalFrames or newly marks it estimated)
\* leaves a total that is positive and below 100 million; a product outside that
\* range changes nothing
C20_EstimateWithinLimits ==
    [][(/\ (pcMain = "new" /\ pcMain' # "new") \/ nErrLines' # nErrLines
        /\ Progress'.FrameEstimated
        /\ Progress'.TotalFrames # Progress.TotalFrames \/ ~Progress.FrameEstimated)
          => (Progress'.TotalFrames > 0 /\ Progress'.TotalFrames < MaxEstimatedFrames)]_vars

\* a stream reported at 90000/1 frames per second whose duration could not be
\* probed, and a stderr line with a duration of 20 minutes: the total is the
\* product, 108 million, marked estimated
C20_Witness ==
    /\ nErrLines > 0
    /\ Progress.SourceFPS = <<90000, 1>>
    /\ Progress.TotalDuration = 1200 * MicrosPerSecond
    /\ Progress.FrameEstimated /\ Progress.TotalFrames = 108000000

\* C21: a step of the stderr pump never changes a positive TotalFrames that is not
\* estimated, nor its flag; when it does set TotalFrames, the total was 0 or
\* estimated before and the new total is the whole part of TotalDuration * SourceFPS
C21_ExactCountKept ==
    [][nErrLines' # nErrLines
          => /\ (Progress.TotalFrames > 0 /\ ~Progress.FrameEstimated)
                  => /\ Progress'.TotalFrames = Progress.TotalFrames
                     /\ ~Progress'.FrameEstimated
             /\ (\/ Progress'.TotalFrames # Progress.TotalFrames
                 \/ Progress'.FrameEstimated # Progress.FrameEstimated)
                  => /\ Progress.TotalFrames = 0 \/ Progress.FrameEstimated
                     /\ Progress'.FrameEstimated
                     /\ Progress'.TotalFrames =
                          Trunc(RMul(Rat(Progress'.TotalDuration, MicrosPerSecond),
                                     Progress'.SourceFPS))]_vars

\* the container gave exactly 100 frames and no duration was probed; the stderr
\* pump then read a duration of 20 minutes: the total is still 100, not estimated
C21_Witness ==
    /\ nErrLines > 0
    /\ Progress.TotalDuration = 1200 * MicrosPerSecond
    /\ Progress.TotalFrames = 100 /\ ~Progress.FrameEstimated

\* C22 as stated: once a Duration line has been applied in a run (here: the total
\* is marked estimated with no probed duration, which only an applied Duration
\* line of zero leaves behind), a later line of the stderr pump leaves
\* TotalDuration, SourceFPS and TotalFrames unchanged
C22_FirstAnnouncementWins ==
    [][(nErrLines' # nErrLines /\ Progress.FrameEstimated /\ Progress.TotalDuration = 0)
          => /\ Progress'.TotalDuration = Progress.TotalDuration
             /\ Progress'.SourceFPS = Progress.SourceFPS
             /\ Progress'.TotalFrames = Progress.TotalFrames]_vars

\* C22: once TotalDuration is not 0, a line of the stderr pump leaves
\* TotalDuration, TotalFrames and FrameEstimated unchanged; once SourceFPS is not
\* 0, which it is from GetTotalFrames on, a line of the stderr pump leaves
\* SourceFPS unchanged
C22_FirstNonZeroWins ==
    /\ [](pcMain # "new" => Progress.SourceFPS[1] > 0)
    /\ [][nErrLines' # nErrLines
             => /\ Progress.TotalDuration # 0
                     => /\ Progress'.TotalDuration = Progress.TotalDuration
                        /\ Progress'.TotalFrames = Progress.TotalFrames
                        /\ Progress'.FrameEstimated = Progress.FrameEstimated
                /\ Progress.SourceFPS[1] # 0
                     => Progress'.SourceFPS = Progress.SourceFPS]_vars

\* no duration was probed; the stderr pump read two lines and the duration is the
\* 5 hundredths of a second of one of them, with the total estimated from it at
\* the probed 30000/1001 frames per second: 1 frame
C22_Witness ==
    /\ nErrLines = 2
    /\ Progress.SourceFPS = <<30000, 1001>>
    /\ Progress.TotalDuration = 50000
    /\ Progress.FrameEstimated /\ Progress.TotalFrames = 1

\* C23 as stated: FrameEstimated is true from the start of the run, and false only
\* with a total that a trusted source has set (such a total is positive)
C23_EstimatedUntilTrusted == Progress.FrameEstimated \/ Progress.TotalFrames > 0

\* C23: every step that changes TotalFrames or FrameEstimated and leaves
\* FrameEstimated false is GetTotalFrames storing a positive container frame count
\* or a finalization storing the final frame count; every other change of
\* TotalFrames marks it estimated
C23_NotEstimatedOnlyWhenTrusted ==
    [][(/\ \/ Progress'.TotalFrames # Progress.TotalFrames
            \/ Progress'.FrameEstimated # Progress.FrameEstimated
        /\ ~Progress'.FrameEstimated)
          => \/ /\ pcMain = "new" /\ pcMain' = "probed"
                /\ Progress'.TotalFrames > 0
             \/ /\ \/ pcOut = "final" /\ pcOut' = "scan"
                   \/ pcWait = "wait" /\ pcWait' = "done" /\ cmd = "exited"
                /\ Progress.Frame > 0
                /\ Progress'.TotalFrames = Progress.Frame]_vars

\* the total was estimated from the probed duration of 10 s, a batch with
\* frame=120 ended the stream and the finalization stored 120, not estimated
C23_Witness ==
    /\ pctBasis = FinalBasis
    /\ Progress.TotalDuration = 10 * MicrosPerSecond
    /\ Progress.Frame = 120 /\ Progress.TotalFrames = 120 /\ ~Progress.FrameEstimated

\* C24: in every reachable state the diagnostic log holds at most maxLogs = 100
\* entries, whichever task appended last (addLog, the stderr pump, the goroutine
\* that waits for the subprocess)
C24_LogBounded == LogLines <= maxLogs

\* the log held 100 entries when the subprocess ended: the goroutine that waits
\* for it appended its closing entry without dropping the oldest
C24_Witness ==
    /\ pcWait = "done" /\ Done
    /\ nErrLines >= maxLogs - 3
    /\ LogLines = maxLogs + 1

\* C25: every accumulated batch is consumed: the stdout pump stops reading only
\* with an empty batch or by applying the batch it holds, so no field update that
\* was parsed (frame, fps, bitrate, size, media time, speed) is dropped at the end
\* of the stream
C25_EveryBatchConsumed ==
    [][(pcOut = "scan" /\ pcOut' = "exit")
          => ~(\/ batch.frameSet \/ batch.fpsSet \/ batch.sizeSet
               \/ batch.bitrateSet \/ batch.outTimeSet \/ batch.speedSet)]_vars

\* the stream ended after a media time line that no marker followed: the pump
\* has exited without applying it and the stored media time is still the old one
C25_Witness ==
    /\ pcOut = "exit" /\ cmd \in {"exited", "failed"}
    /\ batch.outTimeSet /\ ~batch.frameSet
    /\ batch.outTimeUs = 12 * MicrosPerSecond
    /\ Progress.OutTimeUs # batch.outTimeUs

C27_LastValidRetained ==
    /\ [][(pcOut = "apply" /\ pcOut' = "calc")
            => /\ (batch.speedRaw \in {"", "N/A"} \/ batch.speed = IntR(0))
                     => Progress'.LastValidSpeed = Progress.LastValidSpeed
               /\ batch.speedRaw = "2x" => Progress'.LastValidSpeed = IntR(2)
               /\ (~batch.fpsSet \/ batch.fps = IntR(0))
                     => Progress'.LastValidFPS = Progress.LastValidFPS
               /\ (batch.fpsSet /\ batch.fps = IntR(25))
                     => Progress'.LastValidFPS = IntR(25)]_vars
    /\ [][(\/ Progress'.LastValidSpeed # Progress.LastValidSpeed
            \/ Progress'.LastValidFPS # Progress.LastValidFPS)
            => pcOut = "apply" /\ pcOut' = "calc"]_vars
    /\ [][/\ Progress.LastValidSpeed[1] > 0 => Progress'.LastValidSpeed[1] > 0
          /\ Progress.LastValidFPS[1] > 0 => Progress'.LastValidFPS[1] > 0]_vars
    /\ [](/\ Progress.LastValidSpeed \in {IntR(0), IntR(2)}
          /\ Progress.LastValidFPS \in {IntR(0), IntR(25)})

\* a batch with speed=2x was applied and then a batch with speed=0x and fps=0:
\* the zero values are stored for display, the last valid speed is still 2
C27_Witness ==
    /\ mu = "free" /\ nBatches = 2
    /\ Progress.SpeedRaw = "0x" /\ Progress.Speed = "0x"
    /\ Progress.LastValidSpeed = IntR(2)

\* C28: when the subprocess exits with an error the goroutine that waits for it
\* sets Done and Error and leaves the progress record as it is; Done and Error
\* then stay as they are, and the tick that sees them puts the TUI in the error
\* state with a snapshot of the progress record as it stands
C28_FailureKeepsProgress ==
    /\ [][(pcWait = "wait" /\ pcWait' = "done" /\ cmd = "failed")
            => /\ Done' /\ Error' # "nil"
               /\ Progress' = Progress]_vars
    /\ [][Done => Done' /\ Error' = Error]_vars
    /\ [][(Done /\ Error # "nil" /\ State # "StateError" /\ State' = "StateError")
            => CurrentProgress' = Progress /\ Progress' = Progress]_vars
    /\ [](State = "StateError" /\ pcMain = "started" => Done /\ Error # "nil")

\* a batch with frame 120 was applied, the subprocess failed, and the TUI shows
\* the error state with the frame of that batch in its snapshot
C28_Witness ==
    /\ cmd = "failed" /\ Done /\ Error = "exit status 1"
    /\ State = "StateError"
    /\ Progress.Frame = 120 /\ CurrentProgress.Frame = 120
    /\ nBatches > 0

\* C29: the progress record, the log, Done and Error change only in critical
\* sections of the one mutex: while the stdout pump holds it between the field
\* updates and the unlock of applyProgressBatch, no other task changes them or
\* takes a snapshot, the record is the one the batch leaves on the record of the
\* last unlock, and every unlock leaves a record that some whole critical section
\* produced, so the outcome is that of running the critical sections one by one
C29_CriticalSectionsSerial ==
    /\ [](mu # "free" => /\ pcOut = "calc"
                         /\ Progress = applyFields(committed, batch))
    /\ [](mu = "free" => committed = Progress)
    /\ [][mu # "free"
            => \/ /\ pcOut' # "calc" /\ mu' = "free"
                  /\ LogLines' = LogLines /\ Done' = Done /\ Error' = Error
               \/ /\ Progress' = Progress /\ LogLines' = LogLines
                  /\ Done' = Done /\ Error' = Error
                  /\ CurrentProgress' = CurrentProgress /\ mu' = mu]_vars

\* the stdout pump holds the mutex in the middle of a batch while the stderr
\* pump has a line to read, the subprocess has failed and the goroutine that
\* waits for it has Done and Error to set, and a tick of the TUI is due
C29_Witness ==
    /\ mu = "parseProgress" /\ pcOut = "calc"
    /\ Progress # committed
    /\ pcErr = "scan" /\ nErrLines = 0
    /\ cmd = "failed" /\ pcWait = "wait"
    /\ tickPending

\* the three goroutines of Start have finished and left a committed record
C30_Terminated ==
    /\ pcOut = "exit" /\ pcErr = "exit" /\ pcWait = "done"
    /\ Done /\ (cmd = "failed" <=> Error # "nil")
    /\ mu = "free" /\ Progress = committed
    /\ RLeq(IntR(0), Progress.Percentage) /\ RLeq(Progress.Percentage, IntR(100))

\* C30: once the subprocess has terminated (with status 0, with an error, or
\* killed by Stop) both pumps come to the end of their pipe and return, the
\* goroutine that waits for the subprocess sets Done, with Error set when the
\* subprocess failed or was killed, and the mutex is free again; the progress
\* record then is one that was left at an unlock, with its percentage in range
C30_TasksTerminate == (cmd \in {"exited", "failed"}) ~> C30_Terminated

\* Stop killed the subprocess while a batch with frame 20 was held unapplied
\* and the TUI was encoding: the pumps have returned, Done and Error are set,
\* the mutex is free and the frame of the batch is stored
C30_Witness ==
    /\ pcMain = "delivered" /\ State = "StateEncoding"
    /\ cmd = "failed" /\ Done /\ Error # "nil"
    /\ pcOut = "exit" /\ pcErr = "exit" /\ pcWait = "done"
    /\ mu = "free" /\ marker = "eof" /\ Progress.Frame = 20

\* C31: no calculation divides by zero: the size ratio of the completion view is
\* a number, never +Inf or NaN, and it is 0 when the input file is empty
C31_NoZeroDenominator ==
    call.fn = "renderDoneView"
       => /\ call.res.check.ratio.kind = "num"
          /\ (call.arg.input.size = 0 => call.res.check.ratio.val = IntR(0))

\* the completion view checked an output of 500 bytes against an input file
\* that exists and is empty, under a limit of 80 %: the ratio is +Inf and the
\* check reports that the limit is exceeded
C31_Witness ==
    /\ State = "StateDone" /\ call.fn = "renderDoneView"
    /\ call.arg.maxSizePercent = 80
    /\ call.arg.input = Stat(FALSE, 0) /\ call.arg.output = Stat(FALSE, 500)
    /\ call.res.check.err = "nil" /\ ~call.res.check.passed
    /\ call.res.check.ratio.kind = "+Inf"

\* C32: the completion view shows the size of the output file on disk when the
\* lookup succeeds and the size of the last snapshot of the telemetry when it
\* fails; the view is rendered only in StateDone and the lookup, failed or not,
\* leaves the state, Done and Error as they are
C32_FinalSizeFallback ==
    /\ [](call.fn = "renderDoneView"
            => /\ State = "StateDone" /\ Done /\ Error = "nil"
               /\ call.res.finalSize = IF call.arg.output.err
                                        THEN CurrentProgress.TotalSize
                                        ELSE call.arg.output.size)
    /\ [][call' # call
            => /\ State = "StateDone" /\ State' = State
               /\ Done' = Done /\ Error' = Error
               /\ CurrentProgress' = CurrentProgress]_vars

\* the run reported a size of 4096 bytes and completed, the lookup of the output
\* file failed, and the completion view shows 4096
C32_Witness ==
    /\ State = "StateDone" /\ call.fn = "renderDoneView"
    /\ call.arg.output.err
    /\ CurrentProgress.TotalSize = 4096
    /\ call.res.finalSize = 4096

\* C33: with a known total (totalFrames > 0 or totalDuration > 0) formatPercentage
\* shows every percentage above 100 as "100.0%" and every percentage below 0 as
\* "0.0%"
C33_ClampedForDisplay ==
    (/\ call.fn = "formatPercentage"
     /\ (call.arg.totalFrames > 0 \/ call.arg.totalDuration > 0))
       => /\ RLess(IntR(100), call.arg.pct) => call.res = "100.0%"
          /\ RLess(call.arg.pct, IntR(0)) => call.res = "0.0%"

\* formatPercentage was called on 150 with a total of 100 frames, the case of
\* TestFormatPercentage: the text is "99.9%"
C33_Witness ==
    /\ call.fn = "formatPercentage"
    /\ call.arg.pct = IntR(150) /\ call.arg.totalFrames = 100 /\ call.arg.totalDuration = 0
    /\ call.res = "99.9%"

\* C34: every snapshot read with done = true and error = nil, which is the
\* snapshot the TUI holds in StateDone, has a percentage of 100 and no ETA
C34_CompletionStable ==
    State = "StateDone"
       => /\ CurrentProgress.Percentage = IntR(100)
          /\ ~CurrentProgress.ETAAvailable

\* the subprocess exited with status 0 and the goroutine that waits for it
\* finalized the record; the stdout pump then applied the batch it had read, with
\* frame 120 and no total known, and the tick that saw Done took a snapshot with a
\* percentage of 0
C34_Witness ==
    /\ State = "StateDone" /\ Done /\ Error = "nil" /\ cmd = "exited"
    /\ pcWait = "done" /\ nBatches = 1
    /\ CurrentProgress.Frame = 120
    /\ CurrentProgress.Percentage = IntR(0)

\* C35: in every reachable state in which the total number of frames is known
\* (TotalFrames > 0) the current frame does not exceed it
C35_FrameWithinTotal == Progress.TotalFrames > 0 => Progress.Frame <= Progress.TotalFrames

\* no total was known when the batch with frame 120 was applied; the stderr pump
\* then read a Duration line of 4 s and stored 4 s x 10 frames per second = 40
\* as the total, below the current frame
C35_Witness ==
    /\ mu = "free" /\ nBatches > 0 /\ nErrLines > 0
    /\ Progress.Frame = 120
    /\ Progress.TotalDuration = 4 * MicrosPerSecond
    /\ Progress.TotalFrames = 40 /\ Progress.FrameEstimated

\* C36: Done goes from false to true at most once, in the goroutine that waits
\* for the subprocess, and is never reset; Error is written only in the step that
\* sets Done, so Error is never set while Done is false; and that goroutine
\* finalizes the record when the subprocess exited with status 0 and leaves it
\* as it is when the subprocess failed
C36_FlagsConsistent ==
    /\ [](Error # "nil" => Done)
    /\ [][Done => Done']_vars
    /\ [][(Done' # Done \/ Error' # Error)
            => /\ pcWait = "wait" /\ pcWait' = "done"
               /\ ~Done /\ Done']_vars
    /\ [][(pcWait = "wait" /\ pcWait' = "done")
            => /\ Done'
               /\ cmd = "failed" => Error' # "nil" /\ Progress' = Progress
               /\ cmd = "exited" => /\ Error' = "nil"
                                     /\ Progress' = finalizeProgressLocked(Progress)]_vars
    /\ [][(tickPending /\ CurrentProgress' # CurrentProgress /\ State' = "StateError")
            => Done /\ Error # "nil"]_vars

\* the subprocess failed after a batch with frame 120: Done and Error are set,
\* the record is not finalized, and the TUI has seen both flags
C36_Witness ==
    /\ cmd = "failed" /\ pcWait = "done" /\ Done /\ Error = "exit status 1"
    /\ Progress.Frame = 120 /\ pctBasis # FinalBasis
    /\ Progress.Percentage # IntR(100)
    /\ State = "StateError" /\ ~tickPending

\* the TUI is in a state that no tick leaves
C37_Final == State \in {"StateDone", "StateError", "StateSkipped"}

C38_TimestampParser ==
    call.fn = "parseOutTime"
       => IF call.arg.ok THEN call.res = call.arg.us ELSE call.res < 0

\* parseOutTime was called on "00:02:03.abc", whose fraction is not a number:
\* it returned 123 s, the fraction counted as 0
C38_Witness ==
    /\ call.fn = "parseOutTime"
    /\ call.arg.text = "00:02:03.abc" /\ ~call.arg.ok
    /\ call.res = 123 * MicrosPerSecond

====
